---- MODULE Spec2Model ----
(***************************************************************************)
(* Model of the text-log tooling of the VPS simulator                      *)
(* (src/tools/log_parser/sim_log_parser.py): the line decoder, the filter  *)
(* pipeline (filter_entries) and the per-vehicle partition writer          *)
(* (split_by_veh).                                                         *)
(*                                                                         *)
(* Python's None is modelled as the empty tuple <<>> and a present value x *)
(* as the one-element tuple <<x>>.                                         *)
(***************************************************************************)
EXTENDS Integers, Sequences, FiniteSets, TLC

\* ------------------------------------------------------------------ bounds

\* Longest input file of a split pass, in lines.
MaxLines == 3

\* Longest entry stream fed to filter_entries.
MaxStream == 2

\* ------------------------------------------------------------ data model

None == <<>>

Some(x) == <<x>>

\* A scope is the text head ++ digits ++ tail, e.g. "veh:" ++ 0 1 ++ "".
VEH1 == [head |-> "veh:", digits |-> <<1>>, tail |-> ""]

VEH2 == [head |-> "veh:", digits |-> <<2>>, tail |-> ""]

VEH01 == [head |-> "veh:", digits |-> <<0, 1>>, tail |-> ""]

GLOBAL == [head |-> "global", digits |-> <<>>, tail |-> ""]

FAB1 == [head |-> "fab:", digits |-> <<1>>, tail |-> ""]

\* int() of a run of decimal digits.
RECURSIVE DecimalValue(_)
DecimalValue(ds) ==
    IF ds = <<>> THEN 0
    ELSE 10 * DecimalValue(SubSeq(ds, 1, Len(ds) - 1)) + ds[Len(ds)]

\* LogEntry.veh_id: VEH_PATTERN.match(scope), 'veh:' followed by \d+.
veh_id(scope) ==
    IF scope.head = "veh:" /\ scope.digits # <<>>
    THEN Some(DecimalValue(scope.digits))
    ELSE None

\* LogEntry.is_global: the scope is exactly the text 'global'.
is_global(scope) == scope = GLOBAL

\* LogEntry.time_ms of a timestamp [h, m, s, ms].
time_ms(ts) == ((ts.h * 60 + ts.m) * 60 + ts.s) * 1000 + ts.ms

\* LogEntry.file_name: the source text up to its first ':'.
file_name(source) == source[1]

\* A line of the input file.  brackets is the number of leading bracketed
\* fields the text has (the grammar needs five); layout tells whether the
\* whitespace and level padding are those of LogEntry.__str__ ("canon") or
\* not ("loose": leading blanks, an unpadded level, other spacing); eol
\* tells whether the line ends with a newline.
MkLine(brackets, layout, eol, ts, level, scope, source, tag, message) ==
    [brackets |-> brackets, layout |-> layout, eol |-> eol, timestamp |-> ts,
     level |-> level, scope |-> scope, source |-> source, tag |-> tag,
     message |-> message]

\* LOG_PATTERN with the tag field optional.
LOG_PATTERN_TagOptional(line) ==
    /\ line.brackets \in {4, 5}
    /\ line.timestamp.h \in 0..99
    /\ line.timestamp.m \in 0..99
    /\ line.timestamp.s \in 0..99
    /\ line.timestamp.ms \in 0..999

\* LOG_PATTERN: five bracketed fields, the first one a timestamp of
\* two-digit hours, minutes and seconds and three-digit milliseconds.
LOG_PATTERN(line) ==
    /\ line.brackets = 5
    /\ line.timestamp.h \in 0..99
    /\ line.timestamp.m \in 0..99
    /\ line.timestamp.s \in 0..99
    /\ line.timestamp.ms \in 0..999

\* parse_line: the entry of a line that matches, None otherwise.
parse_line(line, n) ==
    IF ~LOG_PATTERN(line) THEN None
    ELSE Some([timestamp |-> line.timestamp, level |-> line.level,
               scope |-> line.scope, source |-> line.source,
               tag |-> line.tag, message |-> line.message, line_num |-> n])

\* str(entry) + '\n': the entry printed in the canonical layout.
EntryStr(entry) ==
    MkLine(5, "canon", TRUE, entry.timestamp, entry.level, entry.scope,
           entry.source, entry.tag, entry.message)

\* ------------------------------------------------------------------ state

VARIABLES
    input,          \* the lines of the source file
    pc,             \* "loop", "finally", "done" (returned), "raised"
    line_num,       \* lines read so far (enumerate's counter)
    veh_files,      \* dict veh_id -> handle, in insertion order
    global_file,    \* None or the global handle
    veh_counts,     \* defaultdict(int)
    global_count,
    total,
    skipped,
    sinks,          \* the output directory: file name -> file
    exc,            \* what was raised inside the try block, or "none"
    exc_at,         \* where in the loop body it was raised
    fin_i,          \* handles of veh_files closed so far by the finally block
    close_exc,      \* name of the file whose close() raised, or "none"
    entries,        \* the entry stream given to filter_entries
    cfgA,           \* the arguments of one filter_entries call
    cfgB,           \* the arguments of another filter_entries call
    pos,            \* entries of the stream consumed so far
    outA,           \* entries yielded by filter_entries(entries, cfgA)
    outAB,          \* yielded by filter_entries(filter_entries(entries, cfgA), cfgB)
    outBA,          \* yielded by filter_entries(filter_entries(entries, cfgB), cfgA)
    log_file,       \* the path of the source log a command is run on
    disk,           \* the file system: path -> file content
    cmd,            \* the command line: operation and its output argument
    ran,            \* the command has run
    orig,           \* the content of the source log before the command
    written,        \* the paths the command opened for writing
    data_file,      \* the bytes of a binary edge-transit log
    offset,         \* the read position of parse_log_file in it
    records,        \* the list parse_log_file has built
    rpc,            \* "read" while parse_log_file loops, then "parsed"
    loaded,         \* None, or the array load_log returned
    summary,        \* None, or what print_summary reported
    veh_summary,    \* None, or the rows print_veh_summary printed
    edge_summary,   \* None, or the rows print_edge_summary printed
    stats,          \* None, or what print_stats reported
    veh_bins,       \* None, or the files the binary split_by_veh wrote
    batch,          \* the parsed entries of a FlatBuffers LogBatch
    fb_args,        \* the --veh, --level, --type and --summary arguments
    fb_i,           \* entries parse_file has gone through
    fb_stats,       \* parse_file's stats dict
    printed,        \* the entries parse_file printed
    forms,          \* the fields each text line was written from
    text_lines,     \* the text lines, character by character
    decoded,        \* what parse_line returned for the lines read so far
    code,           \* two bytes read from records: flags or edge types
    flag_names,     \* None, or what decode_checkpoint_flags returned
    type_names,     \* None, or the edge-type name each script shows
    src_lines,      \* the lines of the file print_entries reads
    show_cfg,       \* the filter arguments of print_entries
    limit,          \* its --limit argument
    tail,           \* its --tail argument
    read,           \* lines pulled from the file so far
    buffer,         \* the tail-mode buffer
    head_count,     \* the head-mode counter (count)
    console,        \* the entries printed so far
    ppc             \* "loop" while print_entries iterates, then "done"

splitVars == <<input, pc, line_num, veh_files, global_file, veh_counts,
               global_count, total, skipped, sinks, exc, exc_at, fin_i,
               close_exc>>

filterVars == <<entries, cfgA, cfgB, pos, outA, outAB, outBA>>

pathVars == <<log_file, disk, cmd, ran, orig, written>>

recordVars == <<data_file, offset, records, rpc, loaded, summary, veh_summary,
                edge_summary, stats, veh_bins>>

fbVars == <<batch, fb_args, fb_i, fb_stats, printed>>

textVars == <<forms, text_lines, decoded>>

labelVars == <<code, flag_names, type_names>>

printVars == <<src_lines, show_cfg, limit, tail, read, buffer, head_count, console,
               ppc>>

laterVars == <<textVars, labelVars, printVars>>

vars == <<splitVars, filterVars, pathVars, recordVars, fbVars, laterVars>>

\* What a split_by_veh pass and a filter pipeline leave alone, respectively.
outsideSplit == <<filterVars, pathVars, recordVars, fbVars,
                  laterVars>>

outsideFilter == <<splitVars, pathVars, recordVars, fbVars,
                  laterVars>>

outsidePath == <<splitVars, filterVars, recordVars, fbVars,
                  laterVars>>

outsideRecords == <<splitVars, filterVars, pathVars, fbVars,
                  laterVars>>

outsideFb == <<splitVars, filterVars, pathVars, recordVars,
                  laterVars>>

outsideText == <<splitVars, filterVars, pathVars, recordVars, fbVars,
                 labelVars, printVars>>

outsideLabels == <<splitVars, filterVars, pathVars, recordVars, fbVars,
                   textVars, printVars>>

outsidePrint == <<splitVars, filterVars, pathVars, recordVars, fbVars,
                  textVars, labelVars>>

\* ----------------------------------------------------------- filter_entries

\* A --from / --to argument: the text of n ':'-separated parts h:m:s.ms
\* (n = 2 is 'h:m', n = 1 a lone number, n = 0 the empty string).
TimeArg(n, h, m, s, ms) == [n |-> n, h |-> h, m |-> m, s |-> s, ms |-> ms]

\* time_start_ms / time_end_ms as computed at the head of filter_entries.
TimeArgMs(t) ==
    IF t = None \/ t[1].n = 0 THEN None
    ELSE IF t[1].n >= 2
         THEN Some(((t[1].h * 60 + t[1].m) * 60 + (IF t[1].n > 2 THEN t[1].s ELSE 0)) * 1000)
         ELSE None

\* Python truth of an optional set, string and integer.
Truthy(opt) == opt # None /\ opt[1] # {}

TruthyStr(opt) == opt # None /\ opt[1] # <<>>

TruthyInt(opt) == opt # None /\ opt[1] # 0

\* str.lower() on the letters used here.
LowerChar(c) == CASE c = "A" -> "a" [] c = "B" -> "b" [] OTHER -> c

Lower(str) == [i \in 1..Len(str) |-> LowerChar(str[i])]

\* needle in haystack, for strings as tuples of characters.
Contains(hay, needle) ==
    \E k \in 0..(Len(hay) - Len(needle)) :
        SubSeq(hay, k + 1, k + Len(needle)) = needle

\* The body of the for loop of filter_entries: TRUE when the entry reaches
\* the yield, FALSE when one of the tests continues.
Keep(cfg, e) ==
    IF Truthy(cfg.levels) /\ e.level \notin cfg.levels[1] THEN FALSE
    ELSE IF cfg.veh_ids # None /\ is_global(e.scope) /\ ~cfg.include_global THEN FALSE
    ELSE IF cfg.veh_ids # None /\ ~is_global(e.scope)
            /\ (veh_id(e.scope) = None \/ veh_id(e.scope)[1] \notin cfg.veh_ids[1]) THEN FALSE
    ELSE IF Truthy(cfg.tags) /\ e.tag \notin cfg.tags[1] THEN FALSE
    ELSE IF Truthy(cfg.files) /\ file_name(e.source) \notin cfg.files[1] THEN FALSE
    ELSE IF TruthyInt(TimeArgMs(cfg.time_start))
            /\ time_ms(e.timestamp) < TimeArgMs(cfg.time_start)[1] THEN FALSE
    ELSE IF TruthyInt(TimeArgMs(cfg.time_end))
            /\ time_ms(e.timestamp) > TimeArgMs(cfg.time_end)[1] THEN FALSE
    ELSE IF TruthyStr(cfg.search) /\ ~Contains(Lower(e.message), Lower(cfg.search[1])) THEN FALSE
    ELSE TRUE

\* filter_entries over a whole stream: the entries it yields, in order.
RECURSIVE FilterSeq(_, _)
FilterSeq(cfg, stream) ==
    IF stream = <<>> THEN <<>>
    ELSE LET rest == FilterSeq(cfg, SubSeq(stream, 1, Len(stream) - 1))
             e == stream[Len(stream)]
         IN IF Keep(cfg, e) THEN Append(rest, e) ELSE rest

\* The defaults of filter_entries' parameters.
DefaultCfg ==
    [levels |-> None, veh_ids |-> None, tags |-> None, files |-> None,
     include_global |-> TRUE, time_start |-> None, time_end |-> None,
     search |-> None]

\* Calls that set one more parameter than c does.
SetOne(c) ==
    {[c EXCEPT !.levels = v] : v \in {Some({"INFO"}), Some({})}}
    \cup {[c EXCEPT !.veh_ids = v] : v \in {Some({1}), Some({})}}
    \cup {[c EXCEPT !.tags = Some({"Lock"})]}
    \cup {[c EXCEPT !.files = Some({"Foo.ts"})]}
    \cup {[c EXCEPT !.include_global = FALSE]}
    \cup {[c EXCEPT !.time_start = Some(v)] :
            v \in {TimeArg(3, 0, 0, 1, 0), TimeArg(3, 0, 0, 1, 500)}}
    \cup {[c EXCEPT !.time_end = Some(v)] :
            v \in {TimeArg(3, 0, 0, 0, 0), TimeArg(3, 0, 0, 1, 0),
                   TimeArg(3, 0, 0, 1, 500), TimeArg(2, 0, 1, 0, 0)}}
    \cup {[c EXCEPT !.search = Some(v)] : v \in {<<"A">>, <<"x">>, <<>>}}

\* The calls tried: those that set at most two parameters.
Cfgs == {DefaultCfg} \cup SetOne(DefaultCfg) \cup UNION {SetOne(c) : c \in SetOne(DefaultCfg)}

SecondCfgs ==
    {DefaultCfg,
     [DefaultCfg EXCEPT !.include_global = FALSE],
     [DefaultCfg EXCEPT !.levels = Some({"INFO"})],
     [DefaultCfg EXCEPT !.veh_ids = Some({2})],
     [DefaultCfg EXCEPT !.time_end = Some(TimeArg(3, 0, 0, 1, 0))]}

Entry(level, scope, s, ms, tag, n) ==
    [timestamp |-> [h |-> 0, m |-> 0, s |-> s, ms |-> ms], level |-> level,
     scope |-> scope, source |-> <<"Foo.ts", "10">>, tag |-> tag,
     message |-> <<"a", "B">>, line_num |-> n]

\* The entries a stream is made of, as stream_log_file yields them for
\* line n of the file.
EntriesAt(n) ==
    {Entry("INFO", VEH1, 0, 700, "Nav", n), Entry("WARN", VEH1, 1, 200, "Lock", n),
     Entry("INFO", GLOBAL, 1, 200, "Nav", n), Entry("WARN", GLOBAL, 1, 700, "Lock", n),
     Entry("INFO", FAB1, 0, 700, "Nav", n), Entry("INFO", VEH2, 1, 200, "Nav", n)}

Streams ==
    UNION {{f \in [1..n -> EntriesAt(1) \cup EntriesAt(2) \cup EntriesAt(3) \cup EntriesAt(4)] :
                \A i \in 1..n : f[i] \in EntriesAt(i)} : n \in 0..MaxStream}

\* The next entry of the stream is pulled through the three pipelines: each
\* generator passes it on to the one that consumes it only when it yields.
FilterStep ==
    /\ pos < Len(entries)
    /\ LET e == entries[pos + 1]
       IN /\ pos' = pos + 1
          /\ outA' = IF Keep(cfgA, e) THEN Append(outA, e) ELSE outA
          /\ outAB' = IF Keep(cfgA, e)
                      THEN (IF Keep(cfgB, e) THEN Append(outAB, e) ELSE outAB)
                      ELSE outAB
          /\ outBA' = IF Keep(cfgB, e)
                      THEN (IF Keep(cfgA, e) THEN Append(outBA, e) ELSE outBA)
                      ELSE outBA
    /\ UNCHANGED <<entries, cfgA, cfgB, outsideFilter>>

FilterIdle ==
    /\ entries = <<>>
    /\ cfgA = DefaultCfg
    /\ cfgB = DefaultCfg
    /\ pos = 0
    /\ outA = <<>>
    /\ outAB = <<>>
    /\ outBA = <<>>

\* ------------------------------------------------------------- split_by_veh

Tstamp == [h |-> 0, m |-> 0, s |-> 1, ms |-> 500]

Src == <<"Foo.ts", "10">>

ParsedLine(scope, layout) ==
    MkLine(5, layout, TRUE, Tstamp, "INFO", scope, Src, "Nav", <<"m">>)

\* The lines a source file is made of: entries of two vehicles (one of them
\* written in two ways), a global entry, an entry of another scope, a line
\* that lacks the tag field and a line of free text.
SplitLines ==
    {ParsedLine(VEH1, "canon"), ParsedLine(VEH2, "loose"),
     ParsedLine(VEH01, "loose"), ParsedLine(GLOBAL, "canon"),
     ParsedLine(FAB1, "loose"),
     MkLine(4, "canon", TRUE, Tstamp, "INFO", VEH1, Src, "", <<"m">>),
     MkLine(0, "loose", TRUE, Tstamp, "", GLOBAL, <<"">>, "", <<"x">>)}

\* Only the last line of a file can lack its newline.
InputFiles ==
    UNION {
        {f \in [1..n -> SplitLines \cup {[l EXCEPT !.eol = FALSE] : l \in SplitLines}] :
            \A i \in 1..n : (i < n => f[i].eol)} : n \in 0..MaxLines}

VehFileName(v) == "veh_" \o ToString(v) \o ".txt"

GlobalFileName == "global.txt"

\* open(path, 'w'): creates the file or truncates it, and returns a handle.
OpenW(fs, name) ==
    (name :> [state |-> "open", data |-> <<>>,
              opens |-> (IF name \in DOMAIN fs THEN fs[name].opens ELSE 0) + 1,
              closes |-> IF name \in DOMAIN fs THEN fs[name].closes ELSE 0]) @@ fs

\* WriteTo with the text put before what the file already holds.
WriteToFront(fs, name, text, n) ==
    [fs EXCEPT ![name].data = <<[text |-> text, n |-> n]>> \o @]

\* handle.write(text); n is the number of the input line it stems from.
WriteTo(fs, name, text, n) ==
    [fs EXCEPT ![name].data = Append(@, [text |-> text, n |-> n])]

\* handle.close()
CloseIn(fs, name) ==
    [fs EXCEPT ![name].state = "closed", ![name].closes = @ + 1]

HasKey(files, v) == \E i \in 1..Len(files) : files[i].key = v

\* SinkName with the vehicle branch writing through the global handle's file.
SinkNameAlwaysGlobal(entry) == GlobalFileName

\* The file the loop body writes the line to.
SinkName(entry) ==
    IF entry = None THEN GlobalFileName
    ELSE IF veh_id(entry[1].scope) # None
         THEN VehFileName(veh_id(entry[1].scope)[1])
         ELSE GlobalFileName

\* MustOpen without the 'not in veh_files' / 'is None' tests: every write
\* opens its file anew.
MustOpenAlways(entry, files, gfile) == TRUE

\* Whether the loop body opens the file before it writes.
MustOpen(entry, files, gfile) ==
    IF entry # None /\ veh_id(entry[1].scope) # None
    THEN ~HasKey(files, veh_id(entry[1].scope)[1])
    ELSE gfile = None

\* WrittenText with the unparsed line written as line.strip() + '\n'.
WrittenTextStripped(line, entry) ==
    IF entry = None THEN [line EXCEPT !.layout = "canon", !.eol = TRUE]
    ELSE EntryStr(entry[1])

\* The text the loop body writes.
WrittenText(line, entry) ==
    IF entry = None THEN line ELSE EntryStr(entry[1])

\* Counter without the 'skipped += 1' of the unparsed branch.
CounterForgetsSkipped(entry) ==
    IF entry = None THEN "none"
    ELSE IF veh_id(entry[1].scope) # None THEN "veh" ELSE "global"

\* The counter the loop body increments.
Counter(entry) ==
    IF entry = None THEN "skipped"
    ELSE IF veh_id(entry[1].scope) # None THEN "veh" ELSE "global"

Get(counts, v) == IF v \in DOMAIN counts THEN counts[v] ELSE 0

\* The handle tables after the loop body has opened what it needs.
VehFilesAfter(entry, files) ==
    IF entry # None /\ veh_id(entry[1].scope) # None /\ MustOpen(entry, files, None)
    THEN Append(files, [key |-> veh_id(entry[1].scope)[1], file |-> SinkName(entry)])
    ELSE files

GlobalFileAfter(entry, gfile) ==
    IF (entry = None \/ veh_id(entry[1].scope) = None) /\ MustOpen(entry, <<>>, gfile)
    THEN Some(SinkName(entry))
    ELSE gfile

SinksAfterOpen(entry) ==
    IF MustOpen(entry, veh_files, global_file)
    THEN OpenW(sinks, SinkName(entry))
    ELSE sinks

\* One iteration of the loop that runs to its end.
\* AfterLine with the unparsed branch leaving the loop.
AfterLineBreaksOnUnparsed(entry) == IF entry = None THEN "finally" ELSE "loop"

\* Where control goes after the loop body: 'continue' in the unparsed
\* branch, the end of the body otherwise; both go on with the next line.
AfterLine(entry) == "loop"

ProcessLine ==
    /\ pc = "loop"
    /\ line_num < Len(input)
    /\ LET n == line_num + 1
           line == input[n]
           entry == parse_line(line, n)
           c == Counter(entry)
       IN /\ line_num' = n
          /\ total' = total + 1
          /\ veh_files' = VehFilesAfter(entry, veh_files)
          /\ global_file' = GlobalFileAfter(entry, global_file)
          /\ sinks' = WriteTo(SinksAfterOpen(entry), SinkName(entry),
                              WrittenText(line, entry), n)
          /\ skipped' = IF c = "skipped" THEN skipped + 1 ELSE skipped
          /\ global_count' = IF c = "global" THEN global_count + 1 ELSE global_count
          /\ veh_counts' =
                IF c = "veh"
                THEN LET v == veh_id(entry[1].scope)[1]
                     IN (v :> (Get(veh_counts, v) + 1)) @@ veh_counts
                ELSE veh_counts
          /\ pc' = AfterLine(entry)
    /\ UNCHANGED <<input, exc, exc_at, fin_i, close_exc, outsideSplit>>

\* An iteration that is cut short: an I/O error raised by reading the next
\* line, by open() or by write(), or a KeyboardInterrupt delivered there or
\* between the write and the counter update.
ProcessLineRaises ==
    /\ pc = "loop"
    /\ \E kind \in {"OSError", "KeyboardInterrupt"}, at \in {"read", "open", "write", "count"} :
        /\ at = "count" => kind = "KeyboardInterrupt"
        /\ at # "read" => line_num < Len(input)
        /\ (at = "open" /\ kind = "OSError") =>
                MustOpen(parse_line(input[line_num + 1], line_num + 1), veh_files, global_file)
        /\ exc' = kind
        /\ exc_at' = at
        /\ pc' = "finally"
        /\ IF at = "read"
           THEN UNCHANGED <<line_num, total, veh_files, global_file, sinks>>
           ELSE LET n == line_num + 1
                    line == input[n]
                    entry == parse_line(line, n)
                IN /\ line_num' = n
                   /\ total' = total + 1
                   /\ IF at = "open"
                      THEN UNCHANGED <<veh_files, global_file, sinks>>
                      ELSE /\ veh_files' = VehFilesAfter(entry, veh_files)
                           /\ global_file' = GlobalFileAfter(entry, global_file)
                           /\ sinks' =
                                IF at = "write" THEN SinksAfterOpen(entry)
                                ELSE WriteTo(SinksAfterOpen(entry), SinkName(entry),
                                             WrittenText(line, entry), n)
    /\ UNCHANGED <<input, veh_counts, global_count, skipped, fin_i, close_exc,
                   outsideSplit>>

\* The for loop ends and the with block closes the source.
EndOfFile ==
    /\ pc = "loop"
    /\ line_num = Len(input)
    /\ pc' = "finally"
    /\ UNCHANGED <<input, line_num, veh_files, global_file, veh_counts,
                   global_count, total, skipped, sinks, exc, exc_at, fin_i,
                   close_exc, outsideSplit>>

\* finally: for f in veh_files.values(): f.close().  A close() that raises
\* (its flush fails) leaves the finally block at once.
CloseVeh ==
    /\ pc = "finally"
    /\ fin_i < Len(veh_files)
    /\ LET name == veh_files[fin_i + 1].file
       IN /\ sinks' = CloseIn(sinks, name)
          /\ \E ok \in BOOLEAN :
                IF ok
                THEN /\ fin_i' = fin_i + 1
                     /\ UNCHANGED <<pc, close_exc>>
                ELSE /\ pc' = "raised"
                     /\ close_exc' = name
                     /\ UNCHANGED fin_i
    /\ UNCHANGED <<input, line_num, veh_files, global_file, veh_counts,
                   global_count, total, skipped, exc, exc_at, outsideSplit>>

\* finally: if global_file: global_file.close(); then the function goes on
\* to print its summary and return, or the pending exception propagates.
CloseGlobal ==
    /\ pc = "finally"
    /\ fin_i = Len(veh_files)
    /\ IF global_file = None
       THEN /\ pc' = IF exc = "none" THEN "done" ELSE "raised"
            /\ UNCHANGED <<sinks, close_exc>>
       ELSE /\ sinks' = CloseIn(sinks, global_file[1])
            /\ \E ok \in BOOLEAN :
                IF ok
                THEN /\ pc' = IF exc = "none" THEN "done" ELSE "raised"
                     /\ UNCHANGED close_exc
                ELSE /\ pc' = "raised"
                     /\ close_exc' = global_file[1]
    /\ UNCHANGED <<input, line_num, veh_files, global_file, veh_counts,
                   global_count, total, skipped, exc, exc_at, fin_i, outsideSplit>>

\* ------------------------------------------- commands and the files they touch

MaxPathLines == 2

\* A path is the sequence of the pieces of its text; dir / name appends.
Join(dir, name) == Append(dir, name)

\* str.replace(old, new) on a path: every piece equal to old becomes new.
Replace(path, old, new) ==
    [i \in DOMAIN path |-> IF path[i] = old THEN new ELSE path[i]]

\* Where a text log may lie: outside the output directory, inside it under
\* the name of a sink, or in the working directory.
TextLogs ==
    {<<"logs/", "sim.log">>, <<"out/", GlobalFileName>>,
     <<"out/", VehFileName(1)>>, <<VehFileName(1)>>}

\* Names of binary logs, with and without the '.bin' piece.
BinLogs == {<<"edge", ".bin">>, <<"edge", ".dat">>, <<"run", ".bin", "/edge", ".bin">>}

LogContents == UNION {[1..n -> SplitLines] : n \in 0..MaxPathLines}

NoCmd == [op |-> "none", out |-> None, veh |-> 0, cfg |-> DefaultCfg]

\* The filter flags an export is tried with: those of SecondCfgs, --file,
\* and --veh together with --no-global.
ExportCfgs ==
    SecondCfgs
    \cup {[DefaultCfg EXCEPT !.files = Some({"Bar.ts"})],
          [DefaultCfg EXCEPT !.veh_ids = Some({2}), !.include_global = FALSE]}

\* main: the listing is shown when one of these flags is given.
has_filter(cfg) ==
    \/ cfg.veh_ids # None
    \/ cfg.levels # None
    \/ cfg.tags # None
    \/ cfg.files # None
    \/ cfg.time_start # None
    \/ cfg.time_end # None
    \/ cfg.search # None

\* sim_log_parser.py <log> --split DIR | --export-veh N [-o OUT] | -o OUT filters
TextCmds(src) ==
    {[op |-> "split", out |-> Some(d), veh |-> 0, cfg |-> DefaultCfg] :
        d \in {<<"out/">>, <<"logs/">>}}
    \cup {[op |-> "export_veh", out |-> o, veh |-> v, cfg |-> DefaultCfg] :
            o \in {None, Some(src), Some(<<"exp.txt">>)}, v \in {1, 2}}
    \cup {[op |-> "export_filtered", out |-> Some(o), veh |-> 0, cfg |-> c] :
            o \in {src, <<"exp.txt">>}, c \in ExportCfgs}

\* parse_edge_transit_log.py <log> --output csv|parquet [--outfile OUT]
TransitCmds ==
    {[op |-> f, out |-> o, veh |-> 0, cfg |-> DefaultCfg] :
        f \in {"csv", "parquet"}, o \in {None, Some(<<"edge_out">>)}}

\* open(path, 'w') and the texts written through the handle until it closes.
Store(d, path, kind, texts) == (path :> [kind |-> kind, lines |-> texts]) @@ d

RECURSIVE Parsed(_, _)
\* The entries stream_log_file yields from the first k lines.
Parsed(lines, k) ==
    IF k = 0 THEN <<>>
    ELSE LET e == parse_line(lines[k], k)
         IN IF e = None THEN Parsed(lines, k - 1)
            ELSE Append(Parsed(lines, k - 1), e[1])

stream_log_file(lines) == Parsed(lines, Len(lines))

\* The lines an export loop writes: str(entry) + '\n' per filtered entry.
ExportLines(cfg, lines) ==
    LET kept == FilterSeq(cfg, stream_log_file(lines))
    IN [i \in 1..Len(kept) |-> EntryStr(kept[i])]

RECURSIVE SplitLinesOf(_, _, _)
\* What the first k iterations of split_by_veh write to the sink called name.
SplitLinesOf(lines, k, name) ==
    IF k = 0 THEN <<>>
    ELSE LET e == parse_line(lines[k], k)
             before == SplitLinesOf(lines, k - 1, name)
         IN IF SinkName(e) = name
            THEN Append(before, WrittenText(lines[k], e))
            ELSE before

\* split_by_veh(log_file, DIR). The source is opened for reading first and,
\* at these sizes, is in the reader's buffer after the first read; each sink
\* is opened 'w' at DIR / name. An error or interrupt ends the pass after
\* k iterations.
RunSplit ==
    /\ ~ran
    /\ cmd.op = "split"
    /\ \E k \in 0..Len(disk[log_file].lines) :
        LET lines == disk[log_file].lines
            names == {SinkName(parse_line(lines[i], i)) : i \in 1..k}
            outs == [p \in {Join(cmd.out[1], n) : n \in names} |->
                        [kind |-> "log",
                         lines |-> SplitLinesOf(lines, k, p[Len(p)])]]
        IN /\ disk' = outs @@ disk
           /\ written' = DOMAIN outs
    /\ ran' = TRUE
    /\ UNCHANGED <<log_file, cmd, orig, outsidePath>>

\* main: output = args.output or Path(f"veh_{N}.txt")
OutputOf(c) == IF c.out # None THEN c.out[1] ELSE <<VehFileName(c.veh)>>

\* The export loop: the output is opened 'w' before the generator chain is
\* first advanced, and only then does stream_log_file open the source.
Export(d, src, out, cfg) ==
    LET opened == Store(d, out, "log", <<>>)
    IN Store(opened, out, "log", ExportLines(cfg, opened[src].lines))

\* filter_entries(entries, veh_ids={veh_id}, include_global=False)
ExportVehCfg(v) ==
    [DefaultCfg EXCEPT !.veh_ids = Some({v}), !.include_global = FALSE]

RunExportVeh ==
    /\ ~ran
    /\ cmd.op = "export_veh"
    /\ disk' = Export(disk, log_file, OutputOf(cmd), ExportVehCfg(cmd.veh))
    /\ written' = {OutputOf(cmd)}
    /\ ran' = TRUE
    /\ UNCHANGED <<log_file, cmd, orig, outsidePath>>

RunExportFiltered ==
    /\ ~ran
    /\ cmd.op = "export_filtered"
    /\ disk' = Export(disk, log_file, cmd.out[1],
                      [cmd.cfg EXCEPT !.files = None, !.include_global = TRUE])
    /\ written' = {cmd.out[1]}
    /\ ran' = TRUE
    /\ UNCHANGED <<log_file, cmd, orig, outsidePath>>

\* parse_edge_transit_log.py main: the log is loaded, then the frame is
\* written to --outfile or to the log's name with '.bin' replaced.
RunTransitExport ==
    /\ ~ran
    /\ cmd.op \in {"csv", "parquet"}
    /\ LET ext == IF cmd.op = "csv" THEN ".csv" ELSE ".parquet"
           out_path == IF cmd.out # None THEN cmd.out[1]
                       ELSE Replace(log_file, ".bin", ext)
       IN /\ disk' = Store(disk, out_path, cmd.op, <<>>)
          /\ written' = {out_path}
    /\ ran' = TRUE
    /\ UNCHANGED <<log_file, cmd, orig, outsidePath>>

PathIdle ==
    /\ log_file = <<>>
    /\ disk = <<>>
    /\ cmd = NoCmd
    /\ ran = FALSE
    /\ orig = <<>>
    /\ written = {}

\* --------------------------------------------- binary edge-transit records

MaxRecords == 2

RECORD_SIZE == 28

\* Little-endian bytes of an unsigned value ('<I', '<H').
LE32(x) == <<x % 256, (x \div 256) % 256, (x \div 65536) % 256, x \div 16777216>>

LE16(x) == <<x % 256, x \div 256>>

\* Unsigned values read at a byte offset ('<u4' / 'I', '<u2' / 'H', 'u1' / 'B').
U32(d, off) ==
    d[off + 1] + 256 * d[off + 2] + 65536 * d[off + 3] + 16777216 * d[off + 4]

U16(d, off) == d[off + 1] + 256 * d[off + 2]

U8(d, off) == d[off + 1]

\* A float32 read at a byte offset: its sign, exponent and fraction bits.
F32(d, off) ==
    [sign |-> d[off + 4] \div 128,
     exp |-> (d[off + 4] % 128) * 2 + d[off + 3] \div 128,
     mant |-> (d[off + 3] % 128) * 65536 + d[off + 2] * 256 + d[off + 1]]

\* The four bytes of a float32.
F32Bytes(f) ==
    <<f.mant % 256, (f.mant \div 256) % 256,
      (f.exp % 2) * 128 + f.mant \div 65536, f.sign * 128 + f.exp \div 2>>

\* struct.unpack(RECORD_FORMAT, data) into an EdgeTransitRecord: the three
\* pad bytes ('3x') are skipped.
unpack(data) ==
    [timestamp |-> U32(data, 0), worker_id |-> U8(data, 4),
     fab_id |-> U8(data, 5), edge_id |-> U16(data, 6),
     veh_id |-> U32(data, 8), enter_time |-> U32(data, 12),
     exit_time |-> U32(data, 16), edge_length |-> F32(data, 20),
     edge_type |-> U8(data, 24)]

\* struct.pack(RECORD_FORMAT, ...) of a record: '3x' writes three zero bytes.
pack(r) ==
    LE32(r.timestamp) \o <<r.worker_id, r.fab_id>> \o LE16(r.edge_id)
    \o LE32(r.veh_id) \o LE32(r.enter_time) \o LE32(r.exit_time)
    \o F32Bytes(r.edge_length) \o <<r.edge_type>> \o <<0, 0, 0>>

\* One element of the RECORD_DTYPE array: every byte is a field's.
FromDtype(data) ==
    [timestamp |-> U32(data, 0), workerId |-> U8(data, 4),
     fabId |-> U8(data, 5), edgeId |-> U16(data, 6), vehId |-> U32(data, 8),
     enterTime |-> U32(data, 12), exitTime |-> U32(data, 16),
     edgeLength |-> F32(data, 20), edgeType |-> U8(data, 24),
     pad1 |-> U8(data, 25), pad2 |-> U8(data, 26), pad3 |-> U8(data, 27)]

\* The float32 bit patterns of 0.0, 1.0 and 10.0.
Float0 == <<0, 0, 0, 0>>

Float1 == <<0, 0, 128, 63>>

Float10 == <<0, 0, 32, 65>>

\* The 28 bytes the simulator logs for one transit.
RecordBytes(ts, worker, fab, edge, veh, enter, exit, len4, type, pad) ==
    LE32(ts) \o <<worker, fab>> \o LE16(edge) \o LE32(veh) \o LE32(enter)
    \o LE32(exit) \o len4 \o <<type>> \o pad

\* Records of a log: transits of positive, negative and zero duration, one
\* of length zero, one with non-zero pad bytes, one with four-byte values.
LogRecords ==
    {RecordBytes(1000, 0, 1, 5, 1, 100, 600, Float10, 0, <<0, 0, 0>>),
     RecordBytes(70000, 1, 1, 300, 2, 600, 100, Float10, 1, <<0, 0, 0>>),
     RecordBytes(2000, 0, 1, 5, 1, 300, 300, Float1, 9, <<0, 0, 0>>),
     RecordBytes(3000, 0, 2, 5, 2, 0, 1000, Float0, 0, <<0, 0, 0>>),
     RecordBytes(1000, 0, 1, 300, 1, 100, 350, Float1, 0, <<255, 0, 1>>),
     RecordBytes(16777217, 0, 1, 5, 1, 16777216, 16777716, Float1, 2, <<0, 0, 0>>)}

\* What may follow the last whole record: nothing, or part of a record.
Tails == {<<>>, <<7>>, [i \in 1..(RECORD_SIZE - 1) |-> 0]}

RECURSIVE Concat(_)
Concat(seqs) == IF seqs = <<>> THEN <<>> ELSE Head(seqs) \o Concat(Tail(seqs))

LogFiles ==
    {Concat(rs) \o t : rs \in UNION {[1..n -> LogRecords] : n \in 0..MaxRecords},
                       t \in Tails}

\* f.read(RECORD_SIZE) at a position: the bytes left, at most RECORD_SIZE.
ReadAt(bytes, at) ==
    SubSeq(bytes, at + 1,
           IF at + RECORD_SIZE <= Len(bytes) THEN at + RECORD_SIZE ELSE Len(bytes))

\* ShortRead that also takes a whole record for a short read.
ShortReadAlsoWhole(data) == Len(data) <= RECORD_SIZE

\* len(data) < RECORD_SIZE
ShortRead(data) == Len(data) < RECORD_SIZE

\* One iteration of parse_log_file's while loop.
ReadRecord ==
    /\ rpc = "read"
    /\ LET data == ReadAt(data_file, offset)
       IN IF ShortRead(data)
          THEN /\ rpc' = "parsed"
               /\ offset' = offset + Len(data)
               /\ UNCHANGED records
          ELSE /\ records' = Append(records, unpack(data))
               /\ offset' = offset + RECORD_SIZE
               /\ UNCHANGED rpc
    /\ UNCHANGED <<data_file, loaded, summary, veh_summary, edge_summary,
                   stats, veh_bins, outsideRecords>>

\* The file size above which load_log maps the file instead of reading it:
\* 100 MB in the script, one record here, so that the files of the model
\* fall on both sides of it.
MmapThreshold == RECORD_SIZE

\* np.fromfile(filepath, dtype=RECORD_DTYPE, count=count): items are read
\* one after the other from the start, until count is reached or the bytes
\* left do not make an item.
RECURSIVE np_fromfile(_, _)
np_fromfile(data, count) ==
    IF count = 0 \/ Len(data) < RECORD_SIZE THEN <<>>
    ELSE <<FromDtype(SubSeq(data, 1, RECORD_SIZE))>>
         \o np_fromfile(SubSeq(data, RECORD_SIZE + 1, Len(data)), count - 1)

\* np.memmap with a view one item short of the count.
np_memmap_one_short(data, count) ==
    [i \in 1..(count - 1) |->
        FromDtype(SubSeq(data, (i - 1) * RECORD_SIZE + 1, i * RECORD_SIZE))]

\* np.memmap(filepath, dtype=RECORD_DTYPE, mode='r', shape=(count,)): a view
\* of count items laid over the file from offset 0.
np_memmap(data, count) ==
    [i \in 1..count |->
        FromDtype(SubSeq(data, (i - 1) * RECORD_SIZE + 1, i * RECORD_SIZE))]

\* load_log: file_size // RECORD_SIZE elements of RECORD_DTYPE, through a
\* memory map for a large file and a direct read otherwise.
LoadLog ==
    /\ loaded = None
    /\ LET file_size == Len(data_file)
           record_count == file_size \div RECORD_SIZE
       IN loaded' = IF file_size > MmapThreshold
                    THEN Some(np_memmap(data_file, record_count))
                    ELSE Some(np_fromfile(data_file, record_count))
    /\ UNCHANGED <<data_file, offset, records, rpc, summary, veh_summary,
                   edge_summary, stats, veh_bins, outsideRecords>>

RECURSIVE Pow2(_)
Pow2(n) == IF n = 0 THEN 1 ELSE 2 * Pow2(n - 1)

RECURSIVE Dyadic(_, _)
\* m * 2^e with the factors of two moved out of m.
Dyadic(m, e) ==
    IF m # 0 /\ m % 2 = 0 THEN Dyadic(m \div 2, e + 1) ELSE [m |-> m, e |-> e]

\* The number a finite, normal or zero float32 stands for, as a fraction.
FloatValue(f) ==
    IF f.exp = 0 /\ f.mant = 0 THEN [num |-> 0, den |-> 1]
    ELSE LET d == Dyadic(8388608 + f.mant, f.exp - 150)
             s == IF f.sign = 1 THEN 0 - 1 ELSE 1
         IN IF d.e >= 0 THEN [num |-> s * d.m * Pow2(d.e), den |-> 1]
            ELSE [num |-> s * d.m, den |-> Pow2(0 - d.e)]

RatAdd(a, b) == [num |-> a.num * b.den + b.num * a.den, den |-> a.den * b.den]

RatEq(a, b) == a.num * b.den = b.num * a.den

RatPositive(a) == a.num > 0

Zero == [num |-> 0, den |-> 1]

\* distance / (time_ms / 1000)
PerSecond(distance, duration) ==
    [num |-> distance.num * 1000 * duration.den, den |-> distance.den * duration.num]

transit_time(r) == r.exit_time - r.enter_time

\* EdgeTransitRecord.speed: always a float, 0.0 when the duration is not
\* positive.
speed(r) ==
    IF transit_time(r) <= 0 THEN Some(Zero)
    ELSE Some(PerSecond(FloatValue(r.edge_length),
                        [num |-> transit_time(r), den |-> 1]))

RECURSIVE SumTransit(_)
\* sum(r.transit_time for r in rs)
SumTransit(rs) ==
    IF rs = <<>> THEN 0 ELSE transit_time(Head(rs)) + SumTransit(Tail(rs))

RECURSIVE SumLength(_)
\* sum(r.edge_length for r in rs)
SumLength(rs) ==
    IF rs = <<>> THEN Zero
    ELSE RatAdd(FloatValue(Head(rs).edge_length), SumLength(Tail(rs)))

RECURSIVE Select(_, _, _)
\* The records of rs whose field named by key ("veh" or "edge") is id.
Select(rs, key, id) ==
    IF rs = <<>> THEN <<>>
    ELSE LET r == Head(rs)
             k == IF key = "veh" THEN r.veh_id ELSE r.edge_id
         IN IF k = id THEN <<r>> \o Select(Tail(rs), key, id)
            ELSE Select(Tail(rs), key, id)

\* group_by_veh / group_by_edge
group_by_veh(rs) ==
    [v \in {rs[i].veh_id : i \in 1..Len(rs)} |-> Select(rs, "veh", v)]

group_by_edge(rs) ==
    [e \in {rs[i].edge_id : i \in 1..Len(rs)} |-> Select(rs, "edge", e)]

\* print_summary: the totals and the average speed it prints (nothing but
\* "No records found." for an empty list).
PrintSummary ==
    /\ rpc = "parsed"
    /\ summary = None
    /\ LET total_distance == SumLength(records)
           total_transit_time == SumTransit(records)
       IN summary' = Some(
            [count |-> Len(records),
             total_distance |-> total_distance,
             total_transit_time |-> total_transit_time,
             avg_speed |-> IF records # <<>> /\ total_transit_time > 0
                           THEN Some(PerSecond(total_distance,
                                    [num |-> total_transit_time, den |-> 1]))
                           ELSE None])
    /\ UNCHANGED <<data_file, offset, records, rpc, loaded, veh_summary,
                   edge_summary, stats, veh_bins, outsideRecords>>

\* print_veh_summary: one row per vehicle.
PrintVehSummary ==
    /\ rpc = "parsed"
    /\ veh_summary = None
    /\ LET grouped == group_by_veh(records)
       IN veh_summary' = Some(
            [vid \in DOMAIN grouped |->
                LET total_dist == SumLength(grouped[vid])
                    total_time == SumTransit(grouped[vid])
                IN [count |-> Len(grouped[vid]),
                    total_dist |-> total_dist,
                    total_time |-> total_time,
                    avg_speed |-> IF total_time > 0
                                  THEN PerSecond(total_dist,
                                        [num |-> total_time, den |-> 1])
                                  ELSE Zero]])
    /\ UNCHANGED <<data_file, offset, records, rpc, loaded, summary,
                   edge_summary, stats, veh_bins, outsideRecords>>

\* print_edge_summary: one row per edge (there are fewer than top_n edges).
PrintEdgeSummary ==
    /\ rpc = "parsed"
    /\ edge_summary = None
    /\ LET grouped == group_by_edge(records)
       IN edge_summary' = Some(
            [edge \in DOMAIN grouped |->
                LET count == Len(grouped[edge])
                    length == FloatValue(grouped[edge][1].edge_length)
                    avg_time == [num |-> SumTransit(grouped[edge]), den |-> count]
                IN [count |-> count,
                    length |-> length,
                    avg_time |-> avg_time,
                    avg_speed |-> IF RatPositive(avg_time)
                                  THEN PerSecond(length, avg_time)
                                  ELSE Zero]])
    /\ UNCHANGED <<data_file, offset, records, rpc, loaded, summary,
                   veh_summary, stats, veh_bins, outsideRecords>>

RECURSIVE PositiveTransits(_)
\* [r.transit_time for r in rs if r.transit_time > 0]
PositiveTransits(rs) ==
    IF rs = <<>> THEN <<>>
    ELSE IF transit_time(Head(rs)) > 0
         THEN <<transit_time(Head(rs))>> \o PositiveTransits(Tail(rs))
         ELSE PositiveTransits(Tail(rs))

RECURSIVE PositiveSpeeds(_)
\* [r.speed for r in rs if r.speed > 0]
PositiveSpeeds(rs) ==
    IF rs = <<>> THEN <<>>
    ELSE IF RatPositive(speed(Head(rs))[1])
         THEN <<speed(Head(rs))[1]>> \o PositiveSpeeds(Tail(rs))
         ELSE PositiveSpeeds(Tail(rs))

RECURSIVE SumInts(_)
SumInts(xs) == IF xs = <<>> THEN 0 ELSE Head(xs) + SumInts(Tail(xs))

RECURSIVE SumRats(_)
SumRats(xs) == IF xs = <<>> THEN Zero ELSE RatAdd(Head(xs), SumRats(Tail(xs)))

Min(xs) == CHOOSE x \in {xs[i] : i \in 1..Len(xs)} :
                \A i \in 1..Len(xs) : x <= xs[i]

Max(xs) == CHOOSE x \in {xs[i] : i \in 1..Len(xs)} :
                \A i \in 1..Len(xs) : x >= xs[i]

\* print_stats of parse_edge_log.py: the transit-time and speed blocks,
\* each printed only when its list is not empty.
PrintStats ==
    /\ rpc = "parsed"
    /\ stats = None
    /\ LET transit_times == PositiveTransits(records)
           speeds == PositiveSpeeds(records)
       IN stats' = Some(
            [count |-> Len(records),
             transit_times |-> transit_times,
             avg_transit |-> IF records # <<>> /\ transit_times # <<>>
                             THEN Some([num |-> SumInts(transit_times),
                                        den |-> Len(transit_times)])
                             ELSE None,
             min_transit |-> IF records # <<>> /\ transit_times # <<>>
                             THEN Some(Min(transit_times)) ELSE None,
             max_transit |-> IF records # <<>> /\ transit_times # <<>>
                             THEN Some(Max(transit_times)) ELSE None,
             speeds |-> speeds,
             avg_speed |-> IF records # <<>> /\ speeds # <<>>
                           THEN Some([num |-> SumRats(speeds).num,
                                      den |-> SumRats(speeds).den * Len(speeds)])
                           ELSE None])
    /\ UNCHANGED <<data_file, offset, records, rpc, loaded, summary,
                   veh_summary, edge_summary, veh_bins, outsideRecords>>

RECURSIVE PackAll(_)
\* The bytes the write loop puts into one vehicle's file.
PackAll(rs) == IF rs = <<>> THEN <<>> ELSE pack(Head(rs)) \o PackAll(Tail(rs))

\* split_by_veh of log_parser.py: veh_<id>.bin per vehicle, each record
\* packed again.
SplitRecords ==
    /\ rpc = "parsed"
    /\ veh_bins = None
    /\ LET grouped == group_by_veh(records)
       IN veh_bins' = Some([v \in DOMAIN grouped |-> PackAll(grouped[v])])
    /\ UNCHANGED <<data_file, offset, records, rpc, loaded, summary,
                   veh_summary, edge_summary, stats, outsideRecords>>

RecordsIdle ==
    /\ data_file = <<>>
    /\ offset = 0
    /\ records = <<>>
    /\ rpc = "read"
    /\ loaded = None
    /\ summary = None
    /\ veh_summary = None
    /\ edge_summary = None
    /\ stats = None
    /\ veh_bins = None

\* ------------------------------------------------- FlatBuffers log batches

MaxBatch == 2

\* What parse_log_entry returns for an entry: the level name, the content
\* type name and, for the content types that carry one, the vehicle id.
LogDict(level, type_name, veh) ==
    [level |-> level, type_name |-> type_name, veh_id |-> veh]

LogDicts ==
    {LogDict("INFO", "DebugLog", Some(1)), LogDict("ERROR", "DebugLog", Some(2)),
     LogDict("INFO", "CheckpointLog", Some(0)), LogDict("INFO", "PerfLog", None)}

Batches == UNION {[1..n -> LogDicts] : n \in 0..MaxBatch}

FbArgs ==
    [veh : {None, Some(0), Some(1)},
     level : {None, Some({"INFO"})},
     type : {None, Some({"DebugLog"})},
     summary : BOOLEAN]

NoStats == [total |-> 0, by_level |-> <<>>, by_type |-> <<>>, by_veh |-> <<>>]

\* d[key] = d.get(key, 0) + 1
Bump(d, key) ==
    IF key \in DOMAIN d THEN [d EXCEPT ![key] = @ + 1] ELSE (key :> 1) @@ d

\* The three filters of the loop body: FALSE where one of them continues.
FbPasses(a, log) ==
    /\ ~(a.veh # None /\ log.veh_id # a.veh)
    /\ ~(Truthy(a.level) /\ log.level \notin a.level[1])
    /\ ~(Truthy(a.type) /\ log.type_name \notin a.type[1])

\* One iteration of parse_file's loop: the stats are updated, then the
\* filters run, then the entry is printed unless --summary is given.
ParseEntry ==
    /\ fb_i < Len(batch)
    /\ LET log == batch[fb_i + 1]
       IN /\ fb_stats' =
                [total |-> fb_stats.total + 1,
                 by_level |-> Bump(fb_stats.by_level, log.level),
                 by_type |-> Bump(fb_stats.by_type, log.type_name),
                 by_veh |-> IF log.veh_id # None
                            THEN Bump(fb_stats.by_veh, log.veh_id[1])
                            ELSE fb_stats.by_veh]
          /\ printed' = IF FbPasses(fb_args, log) /\ ~fb_args.summary
                        THEN Append(printed, log) ELSE printed
    /\ fb_i' = fb_i + 1
    /\ UNCHANGED <<batch, fb_args, outsideFb>>

FbIdle ==
    /\ batch = <<>>
    /\ fb_args = [veh |-> None, level |-> None, type |-> None, summary |-> FALSE]
    /\ fb_i = 0
    /\ fb_stats = NoStats
    /\ printed = <<>>

\* ------------------------------------------------ text lines, by character

\* Lines of one file that are followed character by character.
MaxTexts == 2

Digits == <<"0", "1", "2", "3", "4", "5", "6", "7", "8", "9">>

\* \d
DigitChars == {Digits[i] : i \in 1..10}

\* \w
WordChars ==
    DigitChars \cup
    {"_", "a", "b", "c", "d", "e", "f", "g", "h", "i", "j", "k", "l", "m", "n",
     "o", "p", "q", "r", "s", "t", "u", "v", "w", "x", "y", "z", "A", "B", "C",
     "D", "E", "F", "G", "H", "I", "J", "K", "L", "M", "N", "O", "P", "Q", "R",
     "S", "T", "U", "V", "W", "X", "Y", "Z"}

\* \s
Whitespace == {" ", "\t", "\n", "\r"}

\* int() of a run of decimal digits.
RECURSIVE ToInt(_)
ToInt(ds) ==
    IF ds = <<>> THEN 0
    ELSE LET last == ds[Len(ds)]
             d == CHOOSE i \in 0..9 : Digits[i + 1] = last
         IN 10 * ToInt(SubSeq(ds, 1, Len(ds) - 1)) + d

\* The first position from p on whose character is outside the class.
RECURSIVE SkipWhile(_, _, _)
SkipWhile(t, p, class) ==
    IF p <= Len(t) /\ t[p] \in class THEN SkipWhile(t, p + 1, class) ELSE p

\* The first position from p on that holds c, or 0.
RECURSIVE FindChar(_, _, _)
FindChar(t, p, c) ==
    IF p > Len(t) THEN 0
    ELSE IF t[p] = c THEN p ELSE FindChar(t, p + 1, c)

\* str.strip()
RECURSIVE rstrip(_)
rstrip(t) ==
    IF t # <<>> /\ t[Len(t)] \in Whitespace
    THEN rstrip(SubSeq(t, 1, Len(t) - 1)) ELSE t

strip(t) == LET p == SkipWhile(t, 1, Whitespace) IN rstrip(SubSeq(t, p, Len(t)))

\* str.split(sep) for a one-character separator.
RECURSIVE split(_, _)
split(t, sep) ==
    LET q == FindChar(t, 1, sep)
    IN IF q = 0 THEN <<t>>
       ELSE <<SubSeq(t, 1, q - 1)>> \o split(SubSeq(t, q + 1, Len(t)), sep)

\* \[([^\]]+)\]\s* tried at position p: the group and where the match ends.
Bracketed(t, p) ==
    LET q == FindChar(t, p + 1, "]")
    IN IF p <= Len(t) /\ t[p] = "[" /\ q > p + 1
       THEN [ok |-> TRUE, group |-> SubSeq(t, p + 1, q - 1),
             next |-> SkipWhile(t, q + 1, Whitespace)]
       ELSE [ok |-> FALSE, group |-> <<>>, next |-> 0]

\* \d{2}:\d{2}:\d{2}\.\d{3}
TimestampShape(g) ==
    /\ Len(g) = 12
    /\ \A i \in {1, 2, 4, 5, 7, 8, 10, 11, 12} : g[i] \in DigitChars
    /\ g[3] = ":" /\ g[6] = ":" /\ g[9] = "."

\* (\w+)\s* : the word the level group captures, <<>> when there is none.
LevelWord(g) ==
    LET w == SkipWhile(g, 1, WordChars)
    IN IF w > 1 /\ SkipWhile(g, w, Whitespace) = Len(g) + 1
       THEN SubSeq(g, 1, w - 1) ELSE <<>>

\* LOG_PATTERN.match(t): None, or the six groups.
LOG_PATTERN_match(t) ==
    LET g1 == Bracketed(t, 1)
        g2 == Bracketed(t, g1.next)
        g3 == Bracketed(t, g2.next)
        g4 == Bracketed(t, g3.next)
        g5 == Bracketed(t, g4.next)
    IN IF /\ g1.ok /\ TimestampShape(g1.group)
          /\ g2.ok /\ LevelWord(g2.group) # <<>>
          /\ g3.ok
          /\ g4.ok
          /\ g5.ok
       THEN Some(<<g1.group, LevelWord(g2.group), g3.group, g4.group, g5.group,
                   SubSeq(t, g5.next, Len(t))>>)
       ELSE None

\* parse_line on the characters of a line.
parse_line_text(t, n) ==
    LET match == LOG_PATTERN_match(strip(t))
    IN IF match = None THEN None
       ELSE LET g == match[1]
            IN Some([timestamp |-> g[1], level |-> strip(g[2]), scope |-> g[3],
                     source |-> g[4], tag |-> g[5], message |-> g[6],
                     line_num |-> n])

\* VEH_PATTERN.match(scope), anchored at the start only.
VEH_PATTERN_match(scope) ==
    LET e == SkipWhile(scope, 5, DigitChars)
    IN IF Len(scope) >= 5 /\ SubSeq(scope, 1, 4) = <<"v", "e", "h", ":">> /\ e > 5
       THEN Some(SubSeq(scope, 5, e - 1)) ELSE None

\* LogEntry.veh_id on the characters of the scope.
veh_id_text(scope) ==
    LET match == VEH_PATTERN_match(scope)
    IN IF match = None THEN None ELSE Some(ToInt(match[1]))

\* LogEntry.time_ms on the characters of the timestamp.
time_ms_text(timestamp) ==
    LET parts == split(timestamp, ":")
        h == ToInt(parts[1])
        m == ToInt(parts[2])
        s_ms == split(parts[3], ".")
        s == ToInt(s_ms[1])
        ms == ToInt(s_ms[2])
    IN ((h * 60 + m) * 60 + s) * 1000 + ms

\* "[HH:MM:SS.mmm] [LEVEL] [scope] [file:line] [tag] message", the line
\* format of the log, with `pad` blanks after the level.
LineText(f) ==
    <<"[">> \o f.hh \o <<":">> \o f.mm \o <<":">> \o f.ss \o <<".">> \o f.mmm
    \o <<"]", " ", "[">> \o f.level \o [i \in 1..f.pad |-> " "]
    \o <<"]", " ", "[">> \o f.scope
    \o <<"]", " ", "[">> \o f.source
    \o <<"]", " ", "[">> \o f.tag
    \o <<"]", " ">> \o f.message \o <<"\n">>

BaseForm ==
    [hh |-> <<"0", "0">>, mm |-> <<"0", "0">>, ss |-> <<"0", "1">>,
     mmm |-> <<"5", "0", "0">>, level |-> <<"I", "N", "F", "O">>, pad |-> 1,
     scope |-> <<"v", "e", "h", ":", "7">>,
     source |-> <<"F", "o", "o", ".", "t", "s", ":", "1", "0">>,
     tag |-> <<"N", "a", "v">>,
     message |-> <<"m", "o", "v", "i", "n", "g">>]

\* The base line with one field changed at a time.
Forms ==
    {BaseForm}
    \cup {[BaseForm EXCEPT !.hh = h] :
            h \in {<<"2", "3">>, <<"2", "4">>, <<"9", "9">>, <<"1", "0", "0">>}}
    \cup {[BaseForm EXCEPT !.mm = m] : m \in {<<"0", "1">>, <<"5", "9">>}}
    \cup {[BaseForm EXCEPT !.ss = s] : s \in {<<"0", "0">>, <<"9", "9">>}}
    \cup {[BaseForm EXCEPT !.mmm = ms] :
            ms \in {<<"0", "0", "0">>, <<"9", "9", "9">>}}
    \cup {[BaseForm EXCEPT !.level = l, !.pad = 0] :
            l \in {<<"I", "N", "F", "O">>, <<"D", "E", "B", "U", "G">>}}
    \cup {[BaseForm EXCEPT !.level = <<"W", "A", "R", "N">>, !.pad = 3]}
    \cup {[BaseForm EXCEPT !.scope = sc] :
            sc \in {<<"g", "l", "o", "b", "a", "l">>,
                    <<"f", "a", "b", ":", "1">>,
                    <<"v", "e", "h", ":", "0", "7">>,
                    <<"v", "e", "h", ":", "1", "2">>,
                    <<"v", "e", "h", ":">>,
                    <<"v", "e", "h", ":", "7", "x">>}}
    \cup {[BaseForm EXCEPT !.tag = <<"L", "o", "c", "k", " ", "M", "g", "r">>]}
    \cup {[BaseForm EXCEPT !.message = msg] :
            msg \in {<<>>, <<"a", " ", "b">>, <<"x", " ", "[", "y", "]">>,
                     <<" ", "l", "a", "t", "e">>}}

\* parse_line is applied to the next line of the file.
ParseText ==
    /\ Len(decoded) < Len(text_lines)
    /\ LET n == Len(decoded) + 1
       IN decoded' = Append(decoded, parse_line_text(text_lines[n], n))
    /\ UNCHANGED <<forms, text_lines, outsideText>>

TextIdle ==
    /\ forms = <<>>
    /\ text_lines = <<>>
    /\ decoded = <<>>

\* ------------------------------------------------- names of flags and types

\* The largest flags value and edge-type code looked at.
MaxCode == 255

\* str() of a natural number, digit by digit.
RECURSIVE str_int(_)
str_int(n) ==
    IF n < 10 THEN <<Digits[n + 1]>>
    ELSE str_int(n \div 10) \o <<Digits[(n % 10) + 1]>>

\* flags & mask is non-zero, for a one-bit mask.
BitSet(flags, mask) == (flags \div mask) % 2 = 1

\* sep.join(names), as the pieces of the resulting text.
RECURSIVE join(_, _)
join(names, sep) ==
    IF Len(names) <= 1 THEN names
    ELSE <<Head(names), sep>> \o join(Tail(names), sep)

\* decode_checkpoint_flags with the early return taken whenever none of the
\* four known bits is set.
decode_checkpoint_flags_known_bits_only(flags) ==
    LET n1 == IF BitSet(flags, 1) THEN <<"LOCK_REQUEST">> ELSE <<>>
        n2 == IF BitSet(flags, 2) THEN Append(n1, "LOCK_WAIT") ELSE n1
        n3 == IF BitSet(flags, 4) THEN Append(n2, "LOCK_RELEASE") ELSE n2
        names == IF BitSet(flags, 8) THEN Append(n3, "MOVE_PREPARE") ELSE n3
    IN IF names = <<>> THEN <<"COMPLETED">> ELSE join(names, "|")

decode_checkpoint_flags(flags) ==
    IF flags = 0 THEN <<"COMPLETED">>
    ELSE LET n1 == IF BitSet(flags, 1) THEN <<"LOCK_REQUEST">> ELSE <<>>
             n2 == IF BitSet(flags, 2) THEN Append(n1, "LOCK_WAIT") ELSE n1
             n3 == IF BitSet(flags, 4) THEN Append(n2, "LOCK_RELEASE") ELSE n2
             names == IF BitSet(flags, 8) THEN Append(n3, "MOVE_PREPARE") ELSE n3
         IN IF names # <<>> THEN join(names, "|")
            ELSE <<"UNKNOWN(">> \o str_int(flags) \o <<")">>

\* dict.get(key, default)
get(d, key, default) == IF key \in DOMAIN d THEN d[key] ELSE default

\* EDGE_TYPES of parse_edge_log.py and verify_parser.py, EDGE_TYPE_NAMES of
\* parse_edge_transit_log.py.
EDGE_TYPES ==
    (0 :> <<"LINEAR">>) @@ (1 :> <<"CURVE_90">>) @@ (2 :> <<"CURVE_180">>)
    @@ (3 :> <<"CURVE_CSC">>) @@ (4 :> <<"S_CURVE">>) @@ (5 :> <<"LEFT_CURVE">>)
    @@ (6 :> <<"RIGHT_CURVE">>)

\* EDGE_TYPES of log_parser.py.
EDGE_TYPES_tools ==
    (0 :> <<"LINEAR">>) @@ (1 :> <<"CURVE">>) @@ (2 :> <<"UNKNOWN">>)

\* EdgeTransitRecord.edge_type_name of parse_edge_log.py, and the lookup of
\* print_summary in parse_edge_transit_log.py.
edge_type_name(edge_type) ==
    get(EDGE_TYPES, edge_type, <<"UNKNOWN(">> \o str_int(edge_type) \o <<")">>)

\* EdgeTransitRecord.edge_type_name of log_parser.py.
edge_type_name_tools(edge_type) ==
    get(EDGE_TYPES_tools, edge_type, <<"TYPE_">> \o str_int(edge_type))

\* The lookup of verify_log_file.
edge_type_name_verify(edge_type) == get(EDGE_TYPES, edge_type, <<"UNKNOWN">>)

\* A CheckpointLog entry's flags are decoded.
DecodeFlags ==
    /\ code # <<>>
    /\ flag_names = None
    /\ flag_names' = Some(decode_checkpoint_flags(code[1]))
    /\ UNCHANGED <<code, type_names, outsideLabels>>

\* Each script names the edge types of two records.
NameEdgeTypes ==
    /\ code # <<>>
    /\ type_names = None
    /\ type_names' =
           Some([parse_edge_log |-> [k \in 1..2 |-> edge_type_name(code[k])],
                 log_parser |-> [k \in 1..2 |-> edge_type_name_tools(code[k])],
                 verify_parser |-> [k \in 1..2 |-> edge_type_name_verify(code[k])]])
    /\ UNCHANGED <<code, flag_names, outsideLabels>>

LabelsIdle ==
    /\ code = <<>>
    /\ flag_names = None
    /\ type_names = None

\* -------------------------------------------------------------- print_entries

\* The largest --limit tried.
MaxLimit == 2

\* The filter arguments print_entries is tried with.
PrintCfgs ==
    {DefaultCfg,
     [DefaultCfg EXCEPT !.veh_ids = Some({1})],
     [DefaultCfg EXCEPT !.veh_ids = Some({1}), !.include_global = FALSE]}

\* The line at which filter_entries over stream_log_file yields next when k
\* lines have been read, or 0 when the file ends before it yields.
RECURSIVE NextYield(_, _, _)
NextYield(lines, cfg, k) ==
    IF k >= Len(lines) THEN 0
    ELSE LET e == parse_line(lines[k + 1], k + 1)
         IN IF e # None /\ Keep(cfg, e[1]) THEN k + 1
            ELSE NextYield(lines, cfg, k + 1)

\* The tail buffer dropping its newest entry when it is over the limit.
TrimNewest(buf, n) == IF Len(buf) > n THEN SubSeq(buf, 1, Len(buf) - 1) ELSE buf

\* if len(buffer) > limit: buffer.pop(0)
Trim(buf, n) == IF Len(buf) > n THEN Tail(buf) ELSE buf

\* One turn of the tail-mode loop, or its end and the printing of the buffer.
TailStep ==
    /\ ppc = "loop"
    /\ tail
    /\ LET k == NextYield(src_lines, show_cfg, read)
       IN IF k = 0
          THEN /\ read' = Len(src_lines)
               /\ console' = [i \in 1..Len(buffer) |-> EntryStr(buffer[i])]
               /\ ppc' = "done"
               /\ UNCHANGED buffer
          ELSE /\ read' = k
               /\ buffer' = Trim(Append(buffer, parse_line(src_lines[k], k)[1]),
                                 limit)
               /\ UNCHANGED <<console, ppc>>
    /\ UNCHANGED <<src_lines, show_cfg, limit, tail, head_count, outsidePrint>>

\* One turn of the head-mode loop, or its end.
HeadStep ==
    /\ ppc = "loop"
    /\ ~tail
    /\ LET k == NextYield(src_lines, show_cfg, read)
       IN IF k = 0
          THEN /\ read' = Len(src_lines)
               /\ ppc' = "done"
               /\ UNCHANGED <<console, head_count>>
          ELSE /\ read' = k
               /\ console' = Append(console,
                                    EntryStr(parse_line(src_lines[k], k)[1]))
               /\ head_count' = head_count + 1
               /\ ppc' = IF head_count + 1 >= limit THEN "done" ELSE "loop"
    /\ UNCHANGED <<src_lines, show_cfg, limit, tail, buffer, outsidePrint>>

PrintIdle ==
    /\ src_lines = <<>>
    /\ show_cfg = DefaultCfg
    /\ limit = 0
    /\ tail = FALSE
    /\ read = 0
    /\ buffer = <<>>
    /\ head_count = 0
    /\ console = <<>>
    /\ ppc = "done"

\* ------------------------------------------------------------ specifications

SplitStart ==
    /\ pc = "loop"
    /\ line_num = 0
    /\ veh_files = <<>>
    /\ global_file = None
    /\ veh_counts = <<>>
    /\ global_count = 0
    /\ total = 0
    /\ skipped = 0
    /\ sinks = <<>>
    /\ exc = "none"
    /\ exc_at = "none"
    /\ fin_i = 0
    /\ close_exc = "none"

\* A split_by_veh pass over any source file.
Init ==
    /\ input \in InputFiles
    /\ SplitStart
    /\ FilterIdle
    /\ PathIdle
    /\ RecordsIdle
    /\ FbIdle
    /\ TextIdle
    /\ LabelsIdle
    /\ PrintIdle

Next ==
    \/ ProcessLine
    \/ ProcessLineRaises
    \/ EndOfFile
    \/ CloseVeh
    \/ CloseGlobal

Spec == Init /\ [][Next]_vars

\* filter_entries over any stream, with any pair of argument lists.
FilterInit ==
    /\ input = <<>>
    /\ SplitStart
    /\ entries \in Streams
    /\ cfgA \in Cfgs
    /\ cfgB \in SecondCfgs
    /\ pos = 0
    /\ outA = <<>>
    /\ outAB = <<>>
    /\ outBA = <<>>
    /\ PathIdle
    /\ RecordsIdle
    /\ FbIdle
    /\ TextIdle
    /\ LabelsIdle
    /\ PrintIdle

FilterNext == FilterStep

FilterSpec == FilterInit /\ [][FilterNext]_vars

\* One command run on one log file: a text log with a sim_log_parser.py
\* command, or a binary log with a parse_edge_transit_log.py export.
PathInit ==
    /\ input = <<>>
    /\ SplitStart
    /\ FilterIdle
    /\ ran = FALSE
    /\ written = {}
    /\ \/ /\ log_file \in TextLogs
          /\ orig \in {[kind |-> "log", lines |-> c] : c \in LogContents}
          /\ cmd \in TextCmds(log_file)
       \/ /\ log_file \in BinLogs
          /\ orig = [kind |-> "bin", lines |-> <<>>]
          /\ cmd \in TransitCmds
    /\ disk = (log_file :> orig)
    /\ RecordsIdle
    /\ FbIdle
    /\ TextIdle
    /\ LabelsIdle
    /\ PrintIdle

PathNext ==
    \/ RunSplit
    \/ RunExportVeh
    \/ RunExportFiltered
    \/ RunTransitExport

PathSpec == PathInit /\ [][PathNext]_vars

\* A binary log of any length is parsed record by record, loaded as an
\* array, and reported on.
RecordInit ==
    /\ input = <<>>
    /\ SplitStart
    /\ FilterIdle
    /\ PathIdle
    /\ data_file \in LogFiles
    /\ offset = 0
    /\ records = <<>>
    /\ rpc = "read"
    /\ loaded = None
    /\ summary = None
    /\ veh_summary = None
    /\ edge_summary = None
    /\ stats = None
    /\ veh_bins = None
    /\ FbIdle
    /\ TextIdle
    /\ LabelsIdle
    /\ PrintIdle

RecordNext ==
    \/ ReadRecord
    \/ LoadLog
    \/ PrintSummary
    \/ PrintVehSummary
    \/ PrintEdgeSummary
    \/ PrintStats
    \/ SplitRecords

RecordSpec == RecordInit /\ [][RecordNext]_vars

\* The read loop is not suspended forever.
RecordFairSpec == RecordSpec /\ WF_vars(ReadRecord)

\* parse_file over any batch, with any filter arguments.
FbInit ==
    /\ input = <<>>
    /\ SplitStart
    /\ FilterIdle
    /\ PathIdle
    /\ RecordsIdle
    /\ batch \in Batches
    /\ fb_args \in FbArgs
    /\ fb_i = 0
    /\ fb_stats = NoStats
    /\ printed = <<>>
    /\ TextIdle
    /\ LabelsIdle
    /\ PrintIdle

FbNext == ParseEntry

FbSpec == FbInit /\ [][FbNext]_vars

\* parse_line over the lines of any file, character by character.
TextInit ==
    /\ input = <<>>
    /\ SplitStart
    /\ FilterIdle
    /\ PathIdle
    /\ RecordsIdle
    /\ FbIdle
    /\ forms \in UNION {[1..n -> Forms] : n \in 0..MaxTexts}
    /\ text_lines = [i \in 1..Len(forms) |-> LineText(forms[i])]
    /\ decoded = <<>>
    /\ LabelsIdle
    /\ PrintIdle

TextNext == ParseText

TextSpec == TextInit /\ [][TextNext]_vars

\* The flags and the edge types of any two records are named.
LabelInit ==
    /\ input = <<>>
    /\ SplitStart
    /\ FilterIdle
    /\ PathIdle
    /\ RecordsIdle
    /\ FbIdle
    /\ TextIdle
    /\ code \in (0..MaxCode) \X (0..MaxCode)
    /\ flag_names = None
    /\ type_names = None
    /\ PrintIdle

LabelNext ==
    \/ DecodeFlags
    \/ NameEdgeTypes

LabelSpec == LabelInit /\ [][LabelNext]_vars

\* print_entries over any file, with any limit, in head or tail mode.
PrintInit ==
    /\ input = <<>>
    /\ SplitStart
    /\ FilterIdle
    /\ PathIdle
    /\ RecordsIdle
    /\ FbIdle
    /\ TextIdle
    /\ LabelsIdle
    /\ src_lines \in InputFiles
    /\ show_cfg \in PrintCfgs
    /\ limit \in 0..MaxLimit
    /\ tail \in BOOLEAN
    /\ read = 0
    /\ buffer = <<>>
    /\ head_count = 0
    /\ console = <<>>
    /\ ppc = "loop"

PrintNext ==
    \/ TailStep
    \/ HeadStep

PrintSpec == PrintInit /\ [][PrintNext]_vars

\* A split_by_veh pass over any file, or filter_entries over any stream.
OrderInit == Init \/ FilterInit

OrderNext ==
    \/ Next
    \/ FilterNext

OrderSpec == OrderInit /\ [][OrderNext]_vars

\* -------------------------------------------------------------- properties

\* Line i has been read and its iteration ran to its end.
Completed(i) == i \in 1..line_num /\ (i = line_num => exc_at \in {"none", "read"})

\* Line i has been read and its write was carried out.
WriteDone(i) == i \in 1..line_num /\ (i = line_num => exc_at \in {"none", "read", "count"})

\* How often input line i occurs in the file called name.
Occurs(name, i) ==
    Cardinality({k \in 1..Len(sinks[name].data) : sinks[name].data[k].n = i})

\* The sink the partition writer owes a line: veh_<v>.txt for an entry of
\* vehicle v, global.txt for every other line.
HomeOf(i) ==
    LET entry == parse_line(input[i], i)
    IN IF entry # None /\ veh_id(entry[1].scope) # None
       THEN VehFileName(veh_id(entry[1].scope)[1])
       ELSE GlobalFileName

RECURSIVE SumOver(_, _)
SumOver(f, keys) ==
    IF keys = {} THEN 0
    ELSE LET k == CHOOSE x \in keys : TRUE IN f[k] + SumOver(f, keys \ {k})

WrittenLines == SumOver([name \in DOMAIN sinks |-> Len(sinks[name].data)], DOMAIN sinks)

\* C1: every parsed entry whose iteration completed is in exactly one sink,
\* veh_<v>.txt when its vehicle id is v and global.txt when it has none, and
\* in no other sink.
EntryInExactlyOneSink ==
    \A i \in 1..line_num :
        (Completed(i) /\ parse_line(input[i], i) # None) =>
            /\ HomeOf(i) \in DOMAIN sinks
            /\ Occurs(HomeOf(i), i) = 1
            /\ \A name \in DOMAIN sinks \ {HomeOf(i)} : Occurs(name, i) = 0

\* A finished pass that wrote two entries of vehicle 1 (scopes veh:1 and
\* veh:01) to veh_1.txt and a parsed entry without vehicle id to global.txt.
EntryInExactlyOneSinkWitness ==
    /\ pc = "done"
    /\ \E i, j \in 1..line_num :
        /\ input[i].brackets = 5 /\ input[i].scope = VEH1
        /\ input[j].brackets = 5 /\ input[j].scope = VEH01
        /\ Occurs(VehFileName(1), i) = 1 /\ Occurs(VehFileName(1), j) = 1
    /\ \E i \in 1..line_num :
        /\ input[i].brackets = 5 /\ veh_id(input[i].scope) = None
        /\ GlobalFileName \in DOMAIN sinks /\ Occurs(GlobalFileName, i) = 1

\* C2: while no exception is pending, after every processed line
\* total = skipped + global_count + sum(veh_counts) = lines read = lines
\* written over all sinks, and a pass that returns has read the whole file.
CountsBalance ==
    /\ exc = "none" =>
        /\ total = line_num
        /\ total = skipped + global_count + SumOver(veh_counts, DOMAIN veh_counts)
        /\ WrittenLines = total
    /\ pc = "done" => total = Len(input)

\* A pass that returned after lines of each kind: unparsed, global, vehicle.
CountsBalanceWitness ==
    /\ pc = "done"
    /\ skipped >= 1
    /\ global_count >= 1
    /\ DOMAIN veh_counts # {}
    /\ total >= 3

\* C3: when control has left split_by_veh, by return or by an exception,
\* no file that was opened is still open.
NoSinkLeftOpen ==
    pc \in {"done", "raised"} =>
        \A name \in DOMAIN sinks : sinks[name].state = "closed"

\* C4: when the close of one sink has raised, close has still been called
\* on every other sink that was opened.
CleanupReachesAllSinks ==
    close_exc # "none" =>
        \A name \in DOMAIN sinks \ {close_exc} : sinks[name].closes >= 1

\* C5: a sink is opened once, only for a key that has a line, not before
\* that key's first line is written; it stays open while lines are processed
\* and holds every line written for its key so far.
LazyOpenKeptOpen ==
    \A name \in DOMAIN sinks :
        /\ sinks[name].opens = 1
        /\ \E i \in 1..line_num : HomeOf(i) = name
        /\ pc = "loop" => (sinks[name].state = "open" /\ sinks[name].closes = 0)
        /\ exc = "none" => sinks[name].data # <<>>
        /\ Len(sinks[name].data) =
                Cardinality({i \in 1..line_num : WriteDone(i) /\ HomeOf(i) = name})

\* A pass still in its loop that has written a second line to an open sink
\* while no line of vehicle 2 has come and veh_2.txt does not exist.
LazyOpenKeptOpenWitness ==
    /\ pc = "loop"
    /\ line_num >= 2
    /\ \E name \in DOMAIN sinks :
        Len(sinks[name].data) >= 2 /\ sinks[name].state = "open"
    /\ VehFileName(2) \notin DOMAIN sinks

\* C6: the handle table only grows, and when control has left split_by_veh
\* every handle of the table has been closed exactly once.
TableGrowsClosedOnce ==
    [][/\ Len(veh_files) <= Len(veh_files')
       /\ \A i \in 1..Len(veh_files) : veh_files'[i] = veh_files[i]
       /\ global_file # None => global_file' = global_file
       /\ pc' \in {"done", "raised"} =>
            /\ \A i \in 1..Len(veh_files') : sinks'[veh_files'[i].file].closes = 1
            /\ global_file' # None => sinks'[global_file'[1]].closes = 1]_vars

AcceptLevels(cfg, e) ==
    cfg.levels = None \/ cfg.levels[1] = {} \/ e.level \in cfg.levels[1]

AcceptVehIds(cfg, e) ==
    \/ cfg.veh_ids = None
    \/ cfg.veh_ids[1] = {}
    \/ is_global(e.scope)
    \/ (veh_id(e.scope) # None /\ veh_id(e.scope)[1] \in cfg.veh_ids[1])

AcceptTags(cfg, e) ==
    cfg.tags = None \/ cfg.tags[1] = {} \/ e.tag \in cfg.tags[1]

AcceptFiles(cfg, e) ==
    cfg.files = None \/ cfg.files[1] = {} \/ file_name(e.source) \in cfg.files[1]

\* The instant a time argument h:m[:s[.ms]] names, in milliseconds.
ArgMillis(t) == ((t.h * 60 + t.m) * 60 + t.s) * 1000 + t.ms

AcceptWindow(cfg, e) ==
    /\ cfg.time_start = None \/ ArgMillis(cfg.time_start[1]) <= time_ms(e.timestamp)
    /\ cfg.time_end = None \/ time_ms(e.timestamp) <= ArgMillis(cfg.time_end[1])

AcceptSearch(cfg, e) ==
    \/ cfg.search = None
    \/ cfg.search[1] = <<>>
    \/ Contains(Lower(e.message), Lower(cfg.search[1]))

AcceptGlobal(cfg, e) == cfg.include_global \/ ~is_global(e.scope)

AcceptAll(cfg, e) ==
    /\ AcceptLevels(cfg, e)
    /\ AcceptVehIds(cfg, e)
    /\ AcceptTags(cfg, e)
    /\ AcceptFiles(cfg, e)
    /\ AcceptWindow(cfg, e)
    /\ AcceptSearch(cfg, e)
    /\ AcceptGlobal(cfg, e)

Yielded(i) == \E k \in 1..Len(outA) : outA[k] = entries[i]

\* C8: filter_entries yields an entry exactly when every predicate of the
\* configuration accepts it.
YieldsExactlyAccepted ==
    \A i \in 1..pos : Yielded(i) <=> AcceptAll(cfgA, entries[i])

OnlyWindow(cfg) ==
    /\ [cfg EXCEPT !.time_start = None, !.time_end = None] = DefaultCfg
    /\ cfg.time_start # None \/ cfg.time_end # None

\* C9: with only a time window configured, an entry is yielded exactly when
\* start <= time_ms <= end, in milliseconds, bounds included.
WindowInclusiveInMillis ==
    OnlyWindow(cfgA) =>
        \A i \in 1..pos : Yielded(i) <=> AcceptWindow(cfgA, entries[i])

\* The one call that carries what calls a and b configure, for calls that
\* do not set the same parameter.
Combinable(a, b) ==
    /\ a.levels = None \/ b.levels = None
    /\ a.veh_ids = None \/ b.veh_ids = None
    /\ a.tags = None \/ b.tags = None
    /\ a.files = None \/ b.files = None
    /\ a.time_start = None \/ b.time_start = None
    /\ a.time_end = None \/ b.time_end = None
    /\ a.search = None \/ b.search = None

Pick(x, y) == IF x # None THEN x ELSE y

Together(a, b) ==
    [levels |-> Pick(a.levels, b.levels), veh_ids |-> Pick(a.veh_ids, b.veh_ids),
     tags |-> Pick(a.tags, b.tags), files |-> Pick(a.files, b.files),
     include_global |-> a.include_global /\ b.include_global,
     time_start |-> Pick(a.time_start, b.time_start),
     time_end |-> Pick(a.time_end, b.time_end),
     search |-> Pick(a.search, b.search)]

\* C10: filtering with A then B yields what B then A yields, and what one
\* call with A and B together yields.
FilterOrderIrrelevant ==
    /\ outAB = outBA
    /\ Combinable(cfgA, cfgB) =>
        outAB = FilterSeq(Together(cfgA, cfgB), SubSeq(entries, 1, pos))

\* C11: global inclusion is a predicate of its own: with include_global
\* false no entry of scope 'global' is yielded, whatever else is configured
\* and also when no vehicle set is given; with include_global true a global
\* entry is yielded exactly when it is yielded without the vehicle set.
GlobalInclusionIndependent ==
    \A i \in 1..pos :
        is_global(entries[i].scope) =>
            /\ ~cfgA.include_global => ~Yielded(i)
            /\ cfgA.include_global =>
                (Yielded(i) <=> Keep([cfgA EXCEPT !.veh_ids = None], entries[i]))

\* C12: no command truncates, overwrites or changes the source log: the
\* source is never among the paths opened for writing and its content on
\* disk stays what it was before the command.
SourceLogUntouched ==
    /\ log_file \notin written
    /\ disk[log_file] = orig

\* C13: for every record with exit_time <= enter_time the derived speed is
\* "no value": not a number at all, so neither negative nor infinite.
SpeedAbsentWhenNotPositive ==
    \A i \in 1..Len(records) :
        records[i].exit_time <= records[i].enter_time =>
            speed(records[i]) = None

\* C14: the speed of a record of non-positive transit time differs from
\* the speed of every real observation, and the transit-time totals and
\* averages of the run, of each vehicle and of each edge are those of the
\* records of positive transit time only.
NonPositiveTransitExcluded ==
    /\ \A i, j \in 1..Len(records) :
        (/\ transit_time(records[i]) <= 0
         /\ transit_time(records[j]) > 0
         /\ speed(records[i]) # None
         /\ speed(records[j]) # None)
            => ~RatEq(speed(records[i])[1], speed(records[j])[1])
    /\ summary # None =>
        summary[1].total_transit_time = SumInts(PositiveTransits(records))
    /\ veh_summary # None =>
        \A v \in DOMAIN veh_summary[1] :
            veh_summary[1][v].total_time =
                SumInts(PositiveTransits(Select(records, "veh", v)))
    /\ edge_summary # None =>
        \A e \in DOMAIN edge_summary[1] :
            LET kept == PositiveTransits(Select(records, "edge", e))
            IN kept # <<>> =>
                RatEq(edge_summary[1][e].avg_time,
                      [num |-> SumInts(kept), den |-> Len(kept)])
    /\ stats # None =>
        stats[1].transit_times = PositiveTransits(records)

\* The i-th 28 bytes of the file.
Slice(i) == SubSeq(data_file, (i - 1) * RECORD_SIZE + 1, i * RECORD_SIZE)

RECURSIVE SlicesOf(_, _)
\* The bytes of the first k records that belong to vehicle v, in file order.
SlicesOf(v, k) ==
    IF k = 0 THEN <<>>
    ELSE IF U32(Slice(k), 8) = v THEN SlicesOf(v, k - 1) \o Slice(k)
         ELSE SlicesOf(v, k - 1)

\* C15: decoding a record and packing it again gives back its 28 bytes,
\* pad bytes included: each vehicle file holds the very bytes of that
\* vehicle's records.
RepackReproducesBytes ==
    veh_bins # None =>
        \A v \in DOMAIN veh_bins[1] :
            veh_bins[1][v] = SlicesOf(v, Len(data_file) \div RECORD_SIZE)

WholeRecords ==
    /\ offset <= Len(data_file)
    /\ Len(records) <= Len(data_file) \div RECORD_SIZE
    /\ \A i \in 1..Len(records) : records[i] = unpack(Slice(i))
    /\ rpc = "parsed" => Len(records) = Len(data_file) \div RECORD_SIZE
    /\ loaded # None =>
        /\ Len(loaded[1]) = Len(data_file) \div RECORD_SIZE
        /\ \A i \in 1..Len(loaded[1]) : loaded[1][i] = FromDtype(Slice(i))

\* C16: for a file of n bytes the decoders stop, having yielded the
\* floor(n / 28) whole records in file order, record i from the i-th 28
\* bytes; a trailing part of a record is dropped and an empty file yields
\* no record.
DecoderStopsWithWholeRecords == []WholeRecords /\ <>(rpc = "parsed")

\* Both decoders are through a file of two records and a partial third.
DecoderStopsWithWholeRecordsWitness ==
    /\ rpc = "parsed"
    /\ Len(records) = 2
    /\ loaded # None
    /\ Len(loaded[1]) = 2
    /\ Len(data_file) % RECORD_SIZE # 0

\* The entries among the first k of the batch that pass the filters and
\* satisfy want.
PassedCount(k, want(_)) ==
    Cardinality({i \in 1..k : FbPasses(fb_args, batch[i]) /\ want(batch[i])})

\* C17: the aggregator is fed only the entries that pass the vehicle, level
\* and type filters: the total and the counts per level, per type and per
\* vehicle are the numbers of passing entries.
AggregatorCountsOnlyPassed ==
    /\ fb_stats.total = PassedCount(fb_i, LAMBDA log : TRUE)
    /\ \A l \in DOMAIN fb_stats.by_level :
        fb_stats.by_level[l] = PassedCount(fb_i, LAMBDA log : log.level = l)
    /\ \A t \in DOMAIN fb_stats.by_type :
        fb_stats.by_type[t] = PassedCount(fb_i, LAMBDA log : log.type_name = t)
    /\ \A v \in DOMAIN fb_stats.by_veh :
        fb_stats.by_veh[v] = PassedCount(fb_i, LAMBDA log : log.veh_id = Some(v))

\* The file system after export_veh(v) on the source the pass has split,
\* written next to the source under the default output name.
AfterExportVeh(v) ==
    Export((<<"sim.log">> :> [kind |-> "log", lines |-> input]),
           <<"sim.log">>, <<VehFileName(v)>>, ExportVehCfg(v))

\* The texts of a sink, in the order written.
TextsOf(name) == [k \in 1..Len(sinks[name].data) |-> sinks[name].data[k].text]

ExportedLinesAgree(v) ==
    VehFileName(v) \in DOMAIN sinks =>
        TextsOf(VehFileName(v)) = AfterExportVeh(v)[<<VehFileName(v)>>].lines

\* C18: for every source file and vehicle id v, export_veh(v) writes the
\* lines of the veh_<v>.txt that split_by_veh writes, in the same order, and
\* the two agree on whether there is an output file at all.
ExportVehMatchesSplit ==
    pc = "done" =>
        \A v \in 1..3 :
            /\ ExportedLinesAgree(v)
            /\ VehFileName(v) \in DOMAIN sinks
                <=> <<VehFileName(v)>> \in DOMAIN AfterExportVeh(v)

\* The numbers of the lines of the source that match the grammar.
ParsedLineNums == {i \in 1..Len(input) : parse_line(input[i], i) # None}

\* C19: a malformed line never aborts a scan: parse_line gives an entry or
\* no match for every line; stream_log_file yields the entry of every line
\* that matches, also after a malformed one; and split_by_veh, unless an
\* I/O error or an interrupt ends it, leaves its loop only at end of file,
\* with every line counted and written.
MalformedLineNeverAborts ==
    /\ \A i \in 1..Len(input) :
        parse_line(input[i], i) = None \/ Len(parse_line(input[i], i)) = 1
    /\ LET yielded == stream_log_file(input)
       IN /\ {yielded[k].line_num : k \in 1..Len(yielded)} = ParsedLineNums
          /\ \A k \in 1..(Len(yielded) - 1) :
                yielded[k].line_num < yielded[k + 1].line_num
    /\ (exc = "none" /\ pc # "loop") =>
        /\ line_num = Len(input)
        /\ total = Len(input)
        /\ \A i \in 1..Len(input) : Occurs(HomeOf(i), i) = 1

\* A pass that returned although a malformed line came before lines of a
\* vehicle and of the global scope.
MalformedLineNeverAbortsWitness ==
    /\ pc = "done"
    /\ Len(input) = 3
    /\ parse_line(input[1], 1) = None
    /\ HomeOf(2) = VehFileName(1)
    /\ parse_line(input[3], 3) # None
    /\ HomeOf(3) = GlobalFileName
    /\ Occurs(VehFileName(1), 2) = 1

\* C20: a line that lacks one of the five bracketed fields yields no entry,
\* and the iteration of split_by_veh that processes it adds exactly 1 to
\* skipped and leaves global_count, every veh_counts entry, the vehicle
\* handles and the vehicle files as they were.
MissingFieldOnlySkipped ==
    [][(/\ pc = "loop"
        /\ line_num' = line_num + 1
        /\ exc' = "none"
        /\ input[line_num'].brackets < 5)
        => /\ parse_line(input[line_num'], line_num') = None
           /\ skipped' = skipped + 1
           /\ global_count' = global_count
           /\ veh_counts' = veh_counts
           /\ veh_files' = veh_files
           /\ DOMAIN sinks' \ {GlobalFileName} = DOMAIN sinks \ {GlobalFileName}
           /\ \A name \in DOMAIN sinks \ {GlobalFileName} :
                sinks'[name] = sinks[name]]_vars

\* A line without its tag field has just been processed, after an entry
\* of a vehicle and an entry of the global scope.
MissingFieldOnlySkippedWitness ==
    /\ pc = "loop"
    /\ exc = "none"
    /\ line_num = 3
    /\ input[3].brackets = 4
    /\ veh_files # <<>>
    /\ global_count = 1
    /\ skipped = 1

\* The scope is "veh:" followed by digits and nothing else.
VehScope(scope) ==
    /\ Len(scope) >= 5
    /\ SubSeq(scope, 1, 4) = <<"v", "e", "h", ":">>
    /\ \A k \in 5..Len(scope) : scope[k] \in DigitChars

\* What line i is expected to decode to, field by field.
DecodedAsWritten(i) ==
    LET f == forms[i]
    IN /\ decoded[i] # None
       /\ LET e == decoded[i][1]
          IN /\ e.level = f.level
             /\ veh_id_text(e.scope) =
                    IF VehScope(f.scope)
                    THEN Some(ToInt(SubSeq(f.scope, 5, Len(f.scope))))
                    ELSE None
             /\ e.tag = f.tag
             /\ e.message = f.message
             /\ time_ms_text(e.timestamp) =
                    ((ToInt(f.hh) * 60 + ToInt(f.mm)) * 60 + ToInt(f.ss)) * 1000
                    + ToInt(f.mmm)

\* C21: every line "[HH:MM:SS.mmm] [LEVEL] [scope] [file:line] [tag] message"
\* is decoded to an entry with the level without its padding, the vehicle id
\* N when the scope is "veh:N" and none otherwise, the tag and the message as
\* written, and time_ms = ((HH*60+MM)*60+SS)*1000+mmm.
LineDecodedAsWritten ==
    \A i \in 1..Len(decoded) : Len(forms[i].hh) = 2 => DecodedAsWritten(i)

\* The (h, m, s, ms) fields line i was written with, as numbers.
FieldsOf(i) ==
    <<ToInt(forms[i].hh), ToInt(forms[i].mm), ToInt(forms[i].ss),
      ToInt(forms[i].mmm)>>

\* Lexicographic order on (h, m, s, ms).
LexLess(a, b) ==
    \E k \in 1..4 : a[k] < b[k] /\ \A j \in 1..(k - 1) : a[j] = b[j]

\* C22: time_ms is non-negative and strictly increasing in (h, m, s, ms)
\* taken lexicographically, and the hours are an unbounded count: a line whose
\* hour field is 24 or more, with three digits or more too, is decoded with
\* time_ms = hours*3600000 + ... and is neither wrapped nor rejected.
HoursUnbounded ==
    /\ \A i \in 1..Len(decoded) :
        /\ decoded[i] # None
        /\ time_ms_text(decoded[i][1].timestamp) >= 0
        /\ time_ms_text(decoded[i][1].timestamp) =
               FieldsOf(i)[1] * 3600000 + FieldsOf(i)[2] * 60000
               + FieldsOf(i)[3] * 1000 + FieldsOf(i)[4]
    /\ \A i, j \in 1..Len(decoded) :
        (decoded[i] # None /\ decoded[j] # None /\ LexLess(FieldsOf(i), FieldsOf(j)))
        => time_ms_text(decoded[i][1].timestamp)
               < time_ms_text(decoded[j][1].timestamp)

\* The names of the known bits set in a flags value, lowest bit first.
SetBitNames(flags) ==
    SelectSeq(<<[mask |-> 1, name |-> "LOCK_REQUEST"],
                [mask |-> 2, name |-> "LOCK_WAIT"],
                [mask |-> 4, name |-> "LOCK_RELEASE"],
                [mask |-> 8, name |-> "MOVE_PREPARE"]>>,
              LAMBDA b : (flags \div b.mask) % 2 = 1)

\* C23: decode_checkpoint_flags returns COMPLETED exactly when flags is 0;
\* for other flags it returns the names of the set bits among LOCK_REQUEST
\* (0x01), LOCK_WAIT (0x02), LOCK_RELEASE (0x04) and MOVE_PREPARE (0x08) in
\* bit order joined by "|", and UNKNOWN(flags) when none of the four is set.
FlagsDecoded ==
    flag_names # None =>
        LET flags == code[1]
            out == flag_names[1]
            bits == SetBitNames(flags)
        IN /\ (out = <<"COMPLETED">>) <=> (flags = 0)
           /\ (flags # 0 /\ bits # <<>>) =>
                /\ Len(out) = 2 * Len(bits) - 1
                /\ \A k \in 1..Len(bits) : out[2 * k - 1] = bits[k].name
                /\ \A k \in 1..(Len(bits) - 1) : out[2 * k] = "|"
           /\ (flags # 0 /\ bits = <<>>) =>
                out = <<"UNKNOWN(">> \o str_int(flags) \o <<")">>
           /\ flags = 5 => out = <<"LOCK_REQUEST", "|", "LOCK_RELEASE">>

\* The flags value 0x05 has been decoded.
FlagsDecodedWitness ==
    /\ flag_names # None
    /\ code[1] = 5
    /\ flag_names[1] = <<"LOCK_REQUEST", "|", "LOCK_RELEASE">>

\* The codes of the table a script looks edge types up in.
Defined(script) ==
    IF script = "log_parser" THEN DOMAIN EDGE_TYPES_tools ELSE DOMAIN EDGE_TYPES

\* The name is a placeholder made of a prefix, the code, and a suffix.
HoldsCode(name, c) ==
    \/ name = <<"UNKNOWN(">> \o str_int(c) \o <<")">>
    \/ name = <<"TYPE_">> \o str_int(c)

\* C24: for every edge-type code 0..255 the name lookup gives a name; a code
\* outside the table is shown as a placeholder holding the code, so that two
\* different undefined codes never get the same name and an undefined code
\* never gets the name of a defined type.
UndefinedTypesKeptApart ==
    type_names # None =>
        \A script \in DOMAIN type_names[1] :
            LET names == type_names[1][script]
                known == Defined(script)
            IN /\ \A k \in 1..2 : names[k] # <<>>
               /\ \A k \in 1..2 : code[k] \notin known => HoldsCode(names[k], code[k])
               /\ (code[1] # code[2] /\ code[1] \notin known /\ code[2] \notin known)
                    => names[1] # names[2]
               /\ (code[1] \notin known /\ code[2] \in known) => names[1] # names[2]

\* C25: load_log gives the same records whether it maps the file or reads
\* it directly: floor(size / 28) of them with the same field values, so the
\* size threshold between the two modes cannot be observed.
LoadModesAgree ==
    loaded # None =>
        LET record_count == Len(data_file) \div RECORD_SIZE
        IN /\ Len(loaded[1]) = record_count
           /\ loaded[1] = np_fromfile(data_file, record_count)
           /\ Len(data_file) > 0 => loaded[1] = np_memmap(data_file, record_count)
           /\ \A i \in 1..record_count : loaded[1][i] = FromDtype(Slice(i))

\* A file above the threshold, with bytes left over after its last whole
\* record, has been loaded through the memory map.
LoadModesAgreeWitness ==
    /\ loaded # None
    /\ Len(data_file) > MmapThreshold
    /\ Len(data_file) % RECORD_SIZE # 0
    /\ Len(loaded[1]) >= 1

\* A file below the threshold has been loaded by a direct read.
DirectReadWitness ==
    /\ loaded # None
    /\ Len(data_file) <= MmapThreshold
    /\ Len(loaded[1]) = 1

\* The entries that pass the filters of print_entries, in file order.
Passing == FilterSeq(show_cfg, stream_log_file(src_lines))

\* The passing entries among the lines read so far.
PassingSoFar == FilterSeq(show_cfg, stream_log_file(SubSeq(src_lines, 1, read)))

\* The last k elements of a sequence.
LastOf(seq, k) == SubSeq(seq, Len(seq) - k + 1, Len(seq))

\* C26: in tail mode the buffer holds at most `limit` entries after every
\* processed entry, and at the end of the stream it holds exactly the last
\* min(limit, n) of the n passing entries, in file order.
TailBufferBounded ==
    tail =>
        /\ Len(buffer) <= limit
        /\ buffer = LastOf(PassingSoFar, Min(<<limit, Len(PassingSoFar)>>))
        /\ ppc = "done" =>
            /\ buffer = LastOf(Passing, Min(<<limit, Len(Passing)>>))
            /\ console = [i \in 1..Len(buffer) |-> EntryStr(buffer[i])]

\* The stream has ended after the buffer dropped its oldest entry.
TailBufferBoundedWitness ==
    /\ tail
    /\ ppc = "done"
    /\ limit >= 1
    /\ Len(Passing) > limit
    /\ Len(buffer) = limit
    /\ Head(buffer) # Head(Passing)

\* What head mode has on the console: at most `limit` entries, and, when it
\* is done, the first min(limit, n) of the n passing entries.
HeadPrintsFirst ==
    ~tail =>
        /\ Len(console) <= limit
        /\ ppc = "done" =>
            console = [i \in 1..Min(<<limit, Len(Passing)>>) |-> EntryStr(Passing[i])]

\* Once `limit` entries are on the console, no further line is read.
HeadStopsReading == (~tail /\ Len(console) >= limit) => read' = read

\* C27: head mode prints at most `limit` entries for every limit >= 0 (none
\* for limit 0), the printed entries are the first min(limit, n) passing
\* entries, and no further line of the source is decoded once `limit`
\* entries have been printed.
HeadPrintsAtMostLimit == []HeadPrintsFirst /\ [][HeadStopsReading]_vars

\* C28: for the same filter flags, the entries an --output export writes are
\* exactly those the console listing shows with an unbounded limit: each of
\* the flags (level, vehicle, tag, source file, no-global, time window,
\* search) restricts the export as it restricts the listing. Stated for an
\* output file other than the source log.
ExportMatchesListing ==
    (ran /\ cmd.op = "export_filtered" /\ has_filter(cmd.cfg)
         /\ cmd.out[1] # log_file)
    => disk[cmd.out[1]].lines = ExportLines(cmd.cfg, orig.lines)

\* split_by_veh writes the entry to the global sink.
SplitsToGlobal(e) == SinkName(Some(e)) = GlobalFileName

\* The call sets veh_ids and leaves every other parameter at its default,
\* include_global = True among them.
OnlyVehIds(cfg) ==
    cfg.veh_ids # None /\ [cfg EXCEPT !.veh_ids = None] = DefaultCfg

\* C29: the global classification is consistent: split_by_veh routes an
\* entry to the global sink (veh_id absent) exactly when filter_entries
\* treats it as global (is_global), so an entry whose scope is neither
\* "global" nor "veh:<digits>" is global for both, and a vehicle-id filter
\* with include_global true never drops an entry that the split would place
\* in global.txt.
GlobalClassConsistent ==
    \A i \in 1..pos :
        LET e == entries[i]
        IN /\ SplitsToGlobal(e) <=> is_global(e.scope)
           /\ (OnlyVehIds(cfgA) /\ SplitsToGlobal(e)) => Yielded(i)

\* a can be obtained from b by leaving elements out.
RECURSIVE IsSubseq(_, _)
IsSubseq(a, b) ==
    IF a = <<>> THEN TRUE
    ELSE IF b = <<>> THEN FALSE
    ELSE IF Head(a) = Head(b) THEN IsSubseq(Tail(a), Tail(b))
    ELSE IsSubseq(a, Tail(b))

\* The lines of a sink are lines of the source, in the order of the source.
InSourceOrder(name) ==
    LET data == sinks[name].data
    IN /\ \A k \in 1..Len(data) :
            /\ data[k].n \in 1..line_num
            /\ data[k].text = WrittenText(input[data[k].n],
                                          parse_line(input[data[k].n], data[k].n))
       /\ \A k \in 1..(Len(data) - 1) : data[k].n < data[k + 1].n

\* C30: order is preserved: the entries filter_entries yields are a
\* subsequence of its input stream, in file order, and in every sink that
\* split_by_veh writes the lines are in the relative order they have in the
\* source; the global sink interleaves unparsed lines and parsed global
\* entries in that order.
OrderPreserved ==
    /\ IsSubseq(outA, SubSeq(entries, 1, pos))
    /\ IsSubseq(outAB, outA)
    /\ IsSubseq(outBA, SubSeq(entries, 1, pos))
    /\ \A k \in 1..(Len(outA) - 1) : outA[k].line_num < outA[k + 1].line_num
    /\ \A name \in DOMAIN sinks : InSourceOrder(name)

\* A finished pass wrote a parsed global entry, then an entry of a vehicle,
\* then an unparsed line: global.txt holds lines 1 and 3 in that order.
OrderPreservedWitness ==
    /\ pc = "done"
    /\ line_num = 3
    /\ parse_line(input[1], 1) # None /\ is_global(input[1].scope)
    /\ parse_line(input[2], 2) # None /\ veh_id(input[2].scope) # None
    /\ parse_line(input[3], 3) = None
    /\ GlobalFileName \in DOMAIN sinks
    /\ Len(sinks[GlobalFileName].data) = 2
    /\ sinks[GlobalFileName].data[1].n = 1
    /\ sinks[GlobalFileName].data[2].n = 3

====
